---- MODULE Spec2Model ----
(***************************************************************************)
(* Model of the receipt extraction pipeline of refund-audit-log:           *)
(*   - the strategy cascades process_receipt_image (new_uploader.py) and   *)
(*     process_receipt_image_safe (safe_uploader.py), with the process-    *)
(*     wide SIGALRM alarm and its handler as state;                        *)
(*   - the strategies they call: extract_item_numbers_with_ai,             *)
(*     direct_process, process_image, process_quick;                       *)
(*   - the Pattern-Based Field Extractor extract_data_from_text, computed  *)
(*     on character sequences with a backtracking matcher that follows     *)
(*     Python's re for the pattern shapes the code uses.                   *)
(* Strings are sequences of one-character strings.                         *)
(***************************************************************************)
EXTENDS Integers, Sequences, FiniteSets, TLC

(***************************************************************************)
(* Characters and strings                                                  *)
(***************************************************************************)
Digits == {"0", "1", "2", "3", "4", "5", "6", "7", "8", "9"}

Letters ==
  {"a", "b", "c", "d", "e", "f", "g", "h", "i", "j", "k", "l", "m",
   "n", "o", "p", "q", "r", "s", "t", "u", "v", "w", "x", "y", "z",
   "A", "B", "C", "D", "E", "F", "G", "H", "I", "J", "K", "L", "M",
   "N", "O", "P", "Q", "R", "S", "T", "U", "V", "W", "X", "Y", "Z"}

\* Python's str.strip() and the regex class \s
WS == {" ", "\n", "\t"}

NL == "\n"

Min(a, b) == IF a <= b THEN a ELSE b


Abs(a) == IF a >= 0 THEN a ELSE 0 - a

\* s[a:b] on 1-based positions: the characters a .. b-1
Sub(s, a, b) == SubSeq(s, a, b - 1)

\* str.startswith
StartsWith(s, p) == Len(s) >= Len(p) /\ SubSeq(s, 1, Len(p)) = p

\* str.find: the 1-based position of the first occurrence of p in s, 0 when
\* there is none (Python's find returns that position minus one, and -1)
Find(s, p) ==
  LET hits == {i \in 1..(Len(s) - Len(p) + 1) : SubSeq(s, i, i + Len(p) - 1) = p}
  IN IF hits = {} THEN 0 ELSE CHOOSE i \in hits : \A j \in hits : i <= j

\* the operator `in` on strings
Contains(s, p) == Find(s, p) # 0

RECURSIVE LStripPos(_, _)
LStripPos(s, i) ==
  IF i <= Len(s) /\ s[i] \in WS THEN LStripPos(s, i + 1) ELSE i

RECURSIVE RStripPos(_, _)
RStripPos(s, j) ==
  IF j >= 1 /\ s[j] \in WS THEN RStripPos(s, j - 1) ELSE j

\* str.strip()
Strip(s) == SubSeq(s, LStripPos(s, 1), RStripPos(s, Len(s)))

\* str.split('\n'): the lines of s, at least one
RECURSIVE SplitLines(_)
SplitLines(s) ==
  LET k == Find(s, <<NL>>)
  IN IF k = 0 THEN <<s>>
     ELSE <<SubSeq(s, 1, k - 1)>> \o SplitLines(SubSeq(s, k + 1, Len(s)))

\* "\n".join(lines)
RECURSIVE JoinLines(_)
JoinLines(ls) ==
  IF ls = <<>> THEN <<>>
  ELSE IF Len(ls) = 1 THEN ls[1]
  ELSE ls[1] \o <<NL>> \o JoinLines(Tail(ls))

\* str.zfill(2)
ZFill2(s) == IF Len(s) = 0 THEN <<"0", "0">>
             ELSE IF Len(s) = 1 THEN <<"0">> \o s ELSE s

\* str.isdigit()
IsDigitStr(s) == Len(s) > 0 /\ \A i \in 1..Len(s) : s[i] \in Digits

(***************************************************************************)
(* Regular expressions: a pattern is a sequence of quantified character    *)
(* classes, matched as Python's re matches it (backtracking; a greedy      *)
(* quantifier tries the longest run first, a lazy one the shortest).       *)
(***************************************************************************)
Atom(neg, set, lo, hi, unb, greedy) ==
  [neg |-> neg, set |-> set, lo |-> lo, hi |-> hi, unb |-> unb, greedy |-> greedy]

\* one character of the class S
One(S) == Atom(FALSE, S, 1, 1, FALSE, TRUE)

\* S+
Plus(S) == Atom(FALSE, S, 1, 1, TRUE, TRUE)

\* S*
Star(S) == Atom(FALSE, S, 0, 0, TRUE, TRUE)

\* S?
Opt(S) == Atom(FALSE, S, 0, 1, FALSE, TRUE)

\* S{lo,hi}
Rep(S, lo, hi) == Atom(FALSE, S, lo, hi, FALSE, TRUE)

\* .*?  (the dot matches anything but a newline)
LazyDots == <<Atom(TRUE, {NL}, 0, 0, TRUE, FALSE)>>

\* [^...]+
PlusNot(S) == Atom(TRUE, S, 1, 1, TRUE, TRUE)

\* a literal word
Lit(w) == [i \in 1..Len(w) |-> One({w[i]})]

\* a literal word under re.IGNORECASE, given in lower and in upper case
ILit(lw, uw) == [i \in 1..Len(lw) |-> One({lw[i], uw[i]})]

InClass(a, c) == IF a.neg THEN c \notin a.set ELSE c \in a.set

\* how many characters from pos on the atom can take at most
RECURSIVE RunLen(_, _, _, _)
RunLen(a, s, pos, k) ==
  IF pos + k <= Len(s) /\ (a.unb \/ k < a.hi) /\ InClass(a, s[pos + k])
  THEN RunLen(a, s, pos, k + 1)
  ELSE k

\* ReMatch(re, s, i, pos): atoms i.. of re matched from position pos of s.
\* The result is <<>> when there is no match, else the start position of
\* each atom i.. followed by the end position of the match.
RECURSIVE ReMatch(_, _, _, _), ReTry(_, _, _, _, _, _)
ReMatch(re, s, i, pos) ==
  IF i > Len(re) THEN <<pos>>
  ELSE LET Counted(a, run) ==
             IF run < a.lo THEN <<>>
             ELSE ReTry(re, s, i, pos, IF a.greedy THEN run ELSE a.lo, run)
       IN Counted(re[i], RunLen(re[i], s, pos, 0))

ReTry(re, s, i, pos, c, run) ==
  LET Rest(r, a) ==
        IF r # <<>> THEN <<pos>> \o r
        ELSE IF a.greedy
             THEN (IF c - 1 >= a.lo THEN ReTry(re, s, i, pos, c - 1, run) ELSE <<>>)
             ELSE (IF c + 1 <= run THEN ReTry(re, s, i, pos, c + 1, run) ELSE <<>>)
  IN Rest(ReMatch(re, s, i + 1, pos + c), re[i])

\* re.search from position from: the leftmost match, <<>> when none
RECURSIVE ReSearchFrom(_, _, _)
ReSearchFrom(re, s, from) ==
  IF from > Len(s) + 1 THEN <<>>
  ELSE LET Here(m) == IF m # <<>> THEN m ELSE ReSearchFrom(re, s, from + 1)
       IN Here(ReMatch(re, s, 1, from))

ReSearch(re, s) == ReSearchFrom(re, s, 1)

\* the text matched by atoms i..j of a match m
Group(s, m, i, j) == Sub(s, m[i], m[j + 1])

\* re.findall for a pattern whose only group spans atoms i..j
RECURSIVE ReFindAllFrom(_, _, _, _, _)
ReFindAllFrom(re, s, i, j, from) ==
  LET Found(m) ==
        IF m = <<>> THEN <<>>
        ELSE <<Group(s, m, i, j)>>
             \o ReFindAllFrom(re, s, i, j,
                   IF m[Len(m)] = m[1] THEN m[Len(m)] + 1 ELSE m[Len(m)])
  IN Found(ReSearchFrom(re, s, from))

ReFindAll(re, s, i, j) == ReFindAllFrom(re, s, i, j, 1)

(***************************************************************************)
(* ocr_processor.extract_data_from_text                                    *)
(***************************************************************************)
S_Member == <<"M", "e", "m", "b", "e", "r", "#", ":">>

S_Operator == <<"O", "p", "e", "r", "a", "t", "o", "r", " ", "I", "D", ":">>

S_Date == <<"D", "a", "t", "e">>

S_date == <<"d", "a", "t", "e">>

S_DATE == <<"D", "A", "T", "E">>

S_ItemSp == <<"I", "t", "e", "m", " ">>

S_DefaultItem == <<"1", "2", "3", "4", "5", "6", "7", "8">>

S_ZeroPrice == <<"0", ".", "0", "0">>

S_NoData ==
  <<"N", "o", " ", "d", "a", "t", "a", " ", "e", "x", "t", "r", "a", "c", "t",
    "e", "d", " ", "f", "r", "o", "m", " ", "i", "m", "a", "g", "e">>

\* \d{2}/\d{2}/\d{2,4}
DateShape ==
  <<Rep(Digits, 2, 2), One({"/"}), Rep(Digits, 2, 2), One({"/"}), Rep(Digits, 2, 4)>>

\* \d+\.\d{2}
PriceShape == <<Plus(Digits), One({"."}), Rep(Digits, 2, 2)>>

\* r'Date:?\s*(\d{2}/\d{2}/\d{2,4})' with re.IGNORECASE
HeaderDatePrefix == ILit(S_date, S_DATE) \o <<Opt({":"}), Star(WS)>>

\* r'Date:?\s*(\d{2}/\d{2}/\d{2,4})'
LineDatePrefix == Lit(S_Date) \o <<Opt({":"}), Star(WS)>>

\* r'(\d{6,8})'
item_pattern == <<Rep(Digits, 6, 8)>>

\* r'(\d+\.\d{2})'
price_pattern == PriceShape

\* r'(\d{2}:\d{2}:\d{2})'
time_pattern ==
  <<Rep(Digits, 2, 2), One({":"}), Rep(Digits, 2, 2), One({":"}), Rep(Digits, 2, 2)>>

\* the group of a pattern made of a prefix and a captured shape, '' when the
\* pattern does not match
SearchAfterPrefix(prefix, shape, s) ==
  LET Found(m) ==
        IF m = <<>> THEN <<>>
        ELSE Group(s, m, Len(prefix) + 1, Len(prefix) + Len(shape))
  IN Found(ReSearch(prefix \o shape, s))

\* the first of the first ten lines that holds a date (prefix given)
RECURSIVE FirstDate(_, _, _, _)
FirstDate(prefix, lines, i, n) ==
  IF i > n THEN <<>>
  ELSE LET Found(d) == IF d # <<>> THEN d ELSE FirstDate(prefix, lines, i + 1, n)
       IN Found(SearchAfterPrefix(prefix, DateShape, lines[i]))

\* report_date: None is modelled as '' (the code only uses `report_date or ''`
\* and `not report_date`)
ReportDate(lines) ==
  LET Found(n, d) == IF d # <<>> THEN d ELSE FirstDate(<<>>, lines, 1, n)
  IN Found(Min(10, Len(lines)),
           FirstDate(HeaderDatePrefix, lines, 1, Min(10, Len(lines))))

\* r'Member#:\s*(\d+).*?(\d+\.\d{2})' and the Operator ID pattern
KeyPrefix(w) == Lit(w) \o <<Star(WS)>>

KeyLinePattern(w) == KeyPrefix(w) \o <<Plus(Digits)>> \o LazyDots \o PriceShape

\* r'Member#:\s*\d+\s*(.*?)\s*\d+\.\d{2}' and the Operator ID pattern
KeyDescPattern(w) ==
  KeyPrefix(w) \o <<Plus(Digits), Star(WS)>> \o LazyDots \o <<Star(WS)>> \o PriceShape

TimeIn(s) ==
  LET Found(m) == IF m = <<>> THEN <<>> ELSE Group(s, m, 1, Len(time_pattern))
  IN Found(ReSearch(time_pattern, s))

ItemData(item_number, price, date, time, description) ==
  [item_number |-> item_number, price |-> price, date |-> date,
   time |-> time, description |-> description]

\* C11 (mutant of KeyLineStep): the block without the test of
\* ocr_processor.py 343 / 379, a number seen before is added again
KeyLineStepNoCheck(w, line, report_date, acc) ==
  LET Add(item_number, price, description, date_in_line, time_value) ==
        [items |-> Append(acc.items,
                     ItemData(item_number, price,
                              IF date_in_line # <<>> THEN date_in_line
                              ELSE report_date,
                              time_value,
                              IF description # <<>> THEN description
                              ELSE S_ItemSp \o item_number)),
         processed_items |-> acc.processed_items \cup {item_number}]
      Matched(m, k, dm) ==
        IF m = <<>> THEN acc
        ELSE Add(Group(line, m, k + 1, k + 1), Group(line, m, k + 3, k + 5),
                 IF dm = <<>> THEN <<>> ELSE Strip(Group(line, dm, k + 3, k + 3)),
                 SearchAfterPrefix(LineDatePrefix, DateShape, line),
                 TimeIn(line))
  IN Matched(ReSearch(KeyLinePattern(w), line), Len(KeyPrefix(w)),
             ReSearch(KeyDescPattern(w), line))

\* one of the two blocks of the first pass, for the key w, on one line;
\* acc is [items, processed_items]
KeyLineStep(w, line, report_date, acc) ==
  LET Add(item_number, price, description, date_in_line, time_value) ==
        IF item_number \in acc.processed_items THEN acc
        ELSE [items |-> Append(acc.items,
                          ItemData(item_number, price,
                                   IF date_in_line # <<>> THEN date_in_line
                                   ELSE report_date,
                                   time_value,
                                   IF description # <<>> THEN description
                                   ELSE S_ItemSp \o item_number)),
              processed_items |-> acc.processed_items \cup {item_number}]
      Matched(m, k, dm) ==
        IF m = <<>> THEN acc
        ELSE Add(Group(line, m, k + 1, k + 1), Group(line, m, k + 3, k + 5),
                 IF dm = <<>> THEN <<>> ELSE Strip(Group(line, dm, k + 3, k + 3)),
                 SearchAfterPrefix(LineDatePrefix, DateShape, line),
                 TimeIn(line))
  IN Matched(ReSearch(KeyLinePattern(w), line), Len(KeyPrefix(w)),
             ReSearch(KeyDescPattern(w), line))

RECURSIVE FirstPass(_, _, _, _)
FirstPass(lines, i, report_date, acc) ==
  IF i > Len(lines) THEN acc
  ELSE FirstPass(lines, i + 1, report_date,
         KeyLineStep(S_Operator, lines[i], report_date,
           KeyLineStep(S_Member, lines[i], report_date, acc)))

\* item['date'].split('/')[0]
LeadingToken(d) ==
  LET k == Find(d, <<"/">>) IN IF k = 0 THEN d ELSE SubSeq(d, 1, k - 1)

\* the period loop: the key 'period' is set only when the date holds a '/'
\* and its leading token is all digits
WithPeriod(item) ==
  IF item.date # <<>> /\ Contains(item.date, <<"/">>)
     /\ IsDigitStr(LeadingToken(item.date))
  THEN ("period" :> (<<"P">> \o ZFill2(LeadingToken(item.date)))) @@ item
  ELSE item

WithPeriods(items) == [i \in 1..Len(items) |-> WithPeriod(items[i])]

\* the price of price_matches closest to the item number on the line
RECURSIVE ClosestPrice(_, _, _, _, _, _)
ClosestPrice(line, item_pos, price_matches, i, best, best_dist) ==
  IF i > Len(price_matches) THEN best
  ELSE LET At(dist) ==
             IF best_dist < 0 \/ dist < best_dist
             THEN ClosestPrice(line, item_pos, price_matches, i + 1, price_matches[i], dist)
             ELSE ClosestPrice(line, item_pos, price_matches, i + 1, best, best_dist)
       IN At(Abs(Find(line, price_matches[i]) - item_pos))

RECURSIVE SecondPassLine(_, _, _, _, _, _)
SecondPassLine(line, item_matches, price_matches, i, report_date, acc) ==
  IF i > Len(item_matches) THEN acc
  ELSE SecondPassLine(line, item_matches, price_matches, i + 1, report_date,
         IF item_matches[i] \in acc.processed_items THEN acc
         ELSE [items |-> Append(acc.items,
                  ItemData(item_matches[i],
                           ClosestPrice(line, Find(line, item_matches[i]),
                                        price_matches, 1, <<>>, 0 - 1),
                           report_date, TimeIn(line), S_ItemSp \o item_matches[i])),
               processed_items |-> acc.processed_items \cup {item_matches[i]}])

RECURSIVE SecondPass(_, _, _, _)
SecondPass(lines, i, report_date, acc) ==
  IF i > Len(lines) THEN acc
  ELSE LET OnLine(line, item_matches, price_matches) ==
             IF Len(line) < 20 \/ item_matches = <<>> \/ price_matches = <<>>
             THEN acc
             ELSE SecondPassLine(line, item_matches, price_matches, 1, report_date, acc)
       IN SecondPass(lines, i + 1, report_date,
            OnLine(lines[i], ReFindAll(item_pattern, lines[i], 1, 1),
                   ReFindAll(price_pattern, lines[i], 1, 3)))

RECURSIVE ThirdPass(_, _, _, _, _, _, _)
ThirdPass(all_items, all_prices, all_times, i, count, report_date, acc) ==
  IF i > count \/ i > Len(all_items) THEN acc
  ELSE ThirdPass(all_items, all_prices, all_times, i + 1, count, report_date,
         IF all_items[i] \in acc.processed_items THEN acc
         ELSE [items |-> Append(acc.items,
                  ItemData(all_items[i],
                           IF i <= Len(all_prices) THEN all_prices[i] ELSE all_prices[1],
                           report_date,
                           IF i <= Len(all_times) THEN all_times[i] ELSE <<>>,
                           S_ItemSp \o all_items[i])),
               processed_items |-> acc.processed_items \cup {all_items[i]}])

\* the default item; now is the clock, [date, time] as strftime formats it
DefaultItem(now) == ItemData(S_DefaultItem, S_ZeroPrice, now.date, now.time, S_NoData)

MaxBruteForce == 50

\* C23 (mutant of extract_data_from_text): the passes without the early
\* return of ocr_processor.py 393-409 and without the test of 464, every
\* pass adds to the items of the passes before it
extract_data_from_text_all_tiers(text, now) ==
  LET Finish(c) ==
        WithPeriods(IF c.items # <<>> THEN c.items ELSE <<DefaultItem(now)>>)
      BruteForce(report_date, b, all_items, all_prices, all_times) ==
        Finish(ThirdPass(all_items, all_prices, all_times, 1,
                         Min(Min(Len(all_items), Len(all_prices)), MaxBruteForce),
                         report_date, b))
      Generic(report_date, b) ==
        BruteForce(report_date, b,
                   ReFindAll(item_pattern, text, 1, 1),
                   ReFindAll(price_pattern, text, 1, 3),
                   ReFindAll(time_pattern, text, 1, 5))
      Keyed(lines, report_date, a) ==
        Generic(report_date, SecondPass(lines, 1, report_date, a))
      Dated(lines, report_date) ==
        Keyed(lines, report_date,
              FirstPass(lines, 1, report_date, [items |-> <<>>, processed_items |-> {}]))
      Lines(lines) == Dated(lines, ReportDate(lines))
  IN Lines(SplitLines(Strip(text)))

extract_data_from_text(text, now) ==
  LET Finish(c) ==
        WithPeriods(IF c.items # <<>> THEN c.items ELSE <<DefaultItem(now)>>)
      BruteForce(report_date, b, all_items, all_prices, all_times) ==
        Finish(ThirdPass(all_items, all_prices, all_times, 1,
                         Min(Min(Len(all_items), Len(all_prices)), MaxBruteForce),
                         report_date, b))
      Generic(report_date, b) ==
        IF b.items # <<>> THEN Finish(b)
        ELSE BruteForce(report_date, b,
                        ReFindAll(item_pattern, text, 1, 1),
                        ReFindAll(price_pattern, text, 1, 3),
                        ReFindAll(time_pattern, text, 1, 5))
      Keyed(lines, report_date, a) ==
        IF a.items # <<>> THEN WithPeriods(a.items)
        ELSE Generic(report_date, SecondPass(lines, 1, report_date, a))
      Dated(lines, report_date) ==
        Keyed(lines, report_date,
              FirstPass(lines, 1, report_date, [items |-> <<>>, processed_items |-> {}]))
      Lines(lines) == Dated(lines, ReportDate(lines))
  IN Lines(SplitLines(Strip(text)))

(***************************************************************************)
(* ai_processor: extract_item_numbers_with_ai and extract_fallback         *)
(***************************************************************************)
S_item == <<"i", "t", "e", "m">>

S_ITEM == <<"I", "T", "E", "M">>

S_number == <<"n", "u", "m", "b", "e", "r">>

S_NUMBER == <<"N", "U", "M", "B", "E", "R">>

S_price == <<"p", "r", "i", "c", "e">>

S_PRICE == <<"P", "R", "I", "C", "E">>

S_time == <<"t", "i", "m", "e">>

S_TIME == <<"T", "I", "M", "E">>

S_P00 == <<"P", "0", "0">>

\* dict.get(key, default)
Get(d, key, default) == IF key \in DOMAIN d THEN d[key] ELSE default

\* the class [A-Za-z0-9\-]
ItemChars == Letters \cup Digits \cup {"-"}

IsItemChar(c) == c \in ItemChars

\* C17 (mutant of CleanItemNumber): the class without the dash,
\* [^A-Za-z0-9]
CleanItemNumberNoDash(s) ==
  LET IsAlnum(c) == c \in Letters \cup Digits IN SelectSeq(s, IsAlnum)

\* re.sub(r'[^A-Za-z0-9\-]', '', s)
CleanItemNumber(s) == SelectSeq(s, IsItemChar)

\* the class ["\s:]
KeySep == {"\"", ":"} \cup WS

\* r'item[_\s]*number["\s:]*([A-Za-z0-9\-]+)'
fallback_item_prefix ==
  ILit(S_item, S_ITEM) \o <<Star({"_"} \cup WS)>> \o ILit(S_number, S_NUMBER)
  \o <<Star(KeySep)>>

\* r'price["\s:]*(\$?[\d\.]+)'
fallback_price_prefix == ILit(S_price, S_PRICE) \o <<Star(KeySep)>>

\* r'date["\s:]*([^\n,"]+)'
fallback_date_prefix == ILit(S_date, S_DATE) \o <<Star(KeySep)>>

\* r'time["\s:]*([^\n,"]+)'
fallback_time_prefix == ILit(S_time, S_TIME) \o <<Star(KeySep)>>

\* [^\n,"]+
ValueShape == <<PlusNot({NL, ",", "\""})>>

\* every group of prefix+shape in s (re.finditer, group(1))
FindAllAfterPrefix(prefix, shape, s) ==
  ReFindAll(prefix \o shape, s, Len(prefix) + 1, Len(prefix) + Len(shape))

AIItem(item_number, price, date, time) ==
  [item_number |-> item_number, price |-> price, date |-> date, time |-> time,
   period |-> S_P00]

extract_fallback(content) ==
  LET Items(item_numbers, prices, dates, times) ==
        [i \in 1..Len(item_numbers) |->
           AIItem(item_numbers[i],
                  IF i <= Len(prices) THEN prices[i] ELSE <<>>,
                  IF dates # <<>> THEN dates[1] ELSE <<>>,
                  IF times # <<>> THEN times[1] ELSE <<>>)]
  IN Items(FindAllAfterPrefix(fallback_item_prefix, <<Plus(ItemChars)>>, content),
           FindAllAfterPrefix(fallback_price_prefix,
                              <<Opt({"$"}), Plus(Digits \cup {"."})>>, content),
           FindAllAfterPrefix(fallback_date_prefix, ValueShape, content),
           FindAllAfterPrefix(fallback_time_prefix, ValueShape, content))

\* C8 (mutant of NormalizeItems): the loop without the test of
\* ai_processor.py 118, every parsed item is kept
NormalizeItemsKeepAll(items) ==
  [i \in 1..Len(items) |->
     AIItem(CleanItemNumber(Get(items[i], "item_number", <<>>)),
            Get(items[i], "price", <<>>), Get(items[i], "date", <<>>),
            Get(items[i], "time", <<>>))]

\* the normalisation loop over the items of a parsed JSON response: each item
\* is a dict of strings; an item whose cleaned item_number is empty is dropped
RECURSIVE NormalizeItems(_)
NormalizeItems(items) ==
  IF items = <<>> THEN <<>>
  ELSE LET Kept(item, number) ==
             IF number # <<>>
             THEN <<AIItem(number, Get(item, "price", <<>>), Get(item, "date", <<>>),
                           Get(item, "time", <<>>))>>
             ELSE <<>>
       IN Kept(Head(items), CleanItemNumber(Get(Head(items), "item_number", <<>>)))
          \o NormalizeItems(Tail(items))

\* What extract_item_numbers_with_ai does with the environment's answer r:
\*   no_key      OPENAI_API_KEY is not set                      -> []
\*   encode_fail encode_image raises                            -> raises
\*   api_error   client.chat.completions.create raises          -> []
\*   json        the content parses and holds dicts of strings  -> normalised
\*   bad_shape   the content parses to something else           -> raises
\*   bad_json    json.loads raises JSONDecodeError              -> extract_fallback
AIRaises(r) == r.kind \in {"encode_fail", "bad_shape"}

extract_item_numbers_with_ai(r) ==
  IF r.kind = "json" THEN NormalizeItems(r.items)
  ELSE IF r.kind = "bad_json" THEN extract_fallback(r.content)
  ELSE <<>>

(***************************************************************************)
(* The environment of one request: the clock, the upload, the replies of   *)
(* the vision API and of the recogniser                                    *)
(***************************************************************************)
DigitChar == <<"0", "1", "2", "3", "4", "5", "6", "7", "8", "9">>

\* f"{n:02d}" for 0 <= n <= 99
TwoDigits(n) == <<DigitChar[(n \div 10) + 1], DigitChar[(n % 10) + 1]>>

\* f"P{current_month:02d}"
Period(month) == <<"P">> \o TwoDigits(month)

\* datetime.now() and `date +%m`: the month, strftime('%m/%d/%y') and
\* strftime('%H:%M:%S')
Clocks ==
  {[month |-> 4, date |-> <<"0", "4", "/", "1", "7", "/", "2", "5">>,
    time |-> <<"1", "0", ":", "1", "1", ":", "1", "2">>],
   [month |-> 11, date |-> <<"1", "1", "/", "0", "6", "/", "2", "6">>,
    time |-> <<"0", "7", ":", "0", "8", ":", "0", "9">>]}

UpperCase ==
  <<"A", "B", "C", "D", "E", "F", "G", "H", "I", "J", "K", "L", "M", "N",
  "O", "P", "Q", "R", "S", "T", "U", "V", "W", "X", "Y", "Z">>

LowerCase ==
  <<"a", "b", "c", "d", "e", "f", "g", "h", "i", "j", "k", "l", "m", "n",
  "o", "p", "q", "r", "s", "t", "u", "v", "w", "x", "y", "z">>

\* str.lower()
LowerChar(c) ==
  IF \E i \in 1..Len(UpperCase) : UpperCase[i] = c
  THEN LowerCase[CHOOSE i \in 1..Len(UpperCase) : UpperCase[i] = c]
  ELSE c

Lower(s) == [i \in 1..Len(s) |-> LowerChar(s[i])]

\* names of uploaded files, after secure_filename
F_6560 ==
  <<"I", "M", "G", "_", "6", "5", "6", "0", ".", "j", "p", "g">>

F_6568 ==
  <<"i", "m", "g", "_", "6", "5", "6", "8", ".", "p", "n", "g">>

F_6569 ==
  <<"I", "m", "g", "_", "6", "5", "6", "9", ".", "J", "P", "G">>

F_Other ==
  <<"r", "e", "c", "e", "i", "p", "t", ".", "j", "p", "g">>

FileNames == {F_6560, F_6568, F_6569, F_Other}

\* what happens to the upload: no file attached (or an empty file name),
\* file.save raises, the file is not there after save, it is there with
\* zero bytes, it is there with content
Uploads == {"none", "save_error", "not_saved", "empty", "ok"}

\* raw item dicts of a JSON reply
R_ABDash ==
  <<"A", "B", "-", "1", "2", ";", "3", "4">>

R_Junk ==
  <<" ", ";">>

R_Digits ==
  <<"1", "2", "3", "4", "5", "6", "7">>

P_999 ==
  <<"9", ".", "9", "9">>

RawItems ==
  {[item_number |-> R_ABDash, price |-> P_999],
   [item_number |-> R_Junk, price |-> P_999],
   [price |-> P_999],
   [item_number |-> R_Digits, date |-> <<"0", "4", "/", "1", "7", "/", "2", "5">>]}

\* longest item list of a JSON reply that is enumerated item by item
MaxAIItems == 2

RECURSIVE SeqsUpTo(_, _)
SeqsUpTo(S, n) ==
  IF n = 0 THEN {<<>>}
  ELSE LET shorter == SeqsUpTo(S, n - 1)
       IN shorter \cup {Append(q, e) : q \in {r \in shorter : Len(r) = n - 1}, e \in S}

\* the cap of the batch (app.py: required_count)
required_count == 10

\* a JSON reply with one item more than the cap
LongReply ==
  [i \in 1..(required_count + 1) |->
     [item_number |-> <<"9", "0", "0", "0", "0">> \o TwoDigits(i), price |-> P_999]]

\* a reply that is not JSON
C_KeyValue ==
  <<"i", "t", "e", "m", "_", "n", "u", "m", "b", "e", "r", ":", " ", "1",
  "2", "3", "4", "5", "6", "7", ",", " ", "p", "r", "i", "c", "e", ":", " ",
  "$", "9", ".", "9", "9", "\n", "d", "a", "t", "e", ":", " ", "0", "4",
  "/", "1", "7", "/", "2", "5", ",", " ", "t", "i", "m", "e", ":", " ", "1",
  "0", ":", "1", "1", ":", "1", "2">>

\* a reply that is not JSON and names no item
C_Prose ==
  <<"I", " ", "c", "o", "u", "l", "d", " ", "n", "o", "t", " ", "f", "i",
  "n", "d", " ", "a", "n", "y", " ", "n", "u", "m", "b", "e", "r", "s",
  ".">>

\* what the environment answers to extract_item_numbers_with_ai
AIResponses ==
  {[kind |-> k, items |-> <<>>, content |-> <<>>] :
      k \in {"no_key", "encode_fail", "api_error", "bad_shape"}}
  \cup {[kind |-> "json", items |-> q, content |-> <<>>] :
          q \in SeqsUpTo(RawItems, MaxAIItems) \cup {LongReply}}
  \cup {[kind |-> "bad_json", items |-> <<>>, content |-> c] :
          c \in {C_KeyValue, C_Prose}}

\* recognised texts (pytesseract.image_to_string)
\* four empty recognitions joined
T_Blank ==
  <<"\n", "\n", "\n">>

\* text with no digits
T_Words ==
  <<"T", "O", "T", "A", "L", " ", "D", "U", "E">>

\* key lines (first pass)
T_Member ==
  <<"D", "a", "t", "e", ":", " ", "0", "4", "/", "1", "7", "/", "2", "5",
  "\n", "M", "e", "m", "b", "e", "r", "#", ":", " ", "1", "2", "3", "4",
  "5", "6", "7", " ", "W", "I", "D", "G", "E", "T", " ", "1", "9", ".", "9",
  "9", " ", "1", "0", ":", "1", "1", ":", "1", "2", "\n", "O", "p", "e",
  "r", "a", "t", "o", "r", " ", "I", "D", ":", " ", "7", "6", "5", "4", "3",
  "2", "1", " ", "5", ".", "0", "0">>

\* a line with a digit run and a price (second pass)
T_Generic ==
  <<"2", " ", "x", " ", "i", "t", "e", "m", " ", "1", "2", "3", "4", "5",
  "6", "7", "8", " ", "c", "o", "s", "t", "s", " ", "1", "2", ".", "3", "4",
  " ", "t", "o", "d", "a", "y">>

\* digit runs and prices on separate lines (third pass)
T_Brute ==
  <<"2", "0", "2", "3", "0", "4", "1", "5", "\n", "0", "1", "2", "3", "4",
  "5", "6", "\n", "5", ".", "0", "0", "\n", "1", ".", "2", "5">>

\* recognised text that holds the word Error
T_ErrorWord ==
  <<"E", "r", "r", "o", "r", " ", "1", "2", "3", "4", "5", "6", "7", " ",
  "9", ".", "9", "9", " ", "M", "e", "m", "b", "e", "r", "#", ":", " ", "1",
  "2", "3", "4", "5", "6", "7", " ", "9", ".", "9", "9">>

\* digit-only recognition
T_DigitsOnly ==
  <<"1", "2", "3", "4", "5", "6", "7", "\n", "7", "6", "5", "4", "3", "2",
  "1">>

OcrTexts == {<<>>, T_Blank, T_Words, T_Member, T_Generic, T_Brute, T_ErrorWord, T_DigitsOnly}

\* messages that process_image and process_quick return instead of text
S_Error ==
  <<"E", "r", "r", "o", "r">>

S_ErrorColon ==
  <<"E", "r", "r", "o", "r", ":">>

\* ocr_processor.py:277, f"Error processing image: {str(e)}"
E_ProcessImage ==
  <<"E", "r", "r", "o", "r", " ", "p", "r", "o", "c", "e", "s", "s", "i",
  "n", "g", " ", "i", "m", "a", "g", "e", ":", " ", "P", "r", "o", "c", "e",
  "s", "s", "i", "n", "g", " ", "t", "i", "m", "e", "d", " ", "o", "u",
  "t">>

\* ocr_processor.py:92
E_Unreadable ==
  <<"E", "r", "r", "o", "r", ":", " ", "C", "o", "u", "l", "d", " ", "n",
  "o", "t", " ", "p", "r", "o", "c", "e", "s", "s", " ", "i", "m", "a", "g",
  "e", ".", " ", "I", "t", " ", "m", "a", "y", " ", "b", "e", " ", "c", "o",
  "r", "r", "u", "p", "t", "e", "d", " ", "o", "r", " ", "i", "n", " ", "a",
  "n", " ", "u", "n", "s", "u", "p", "p", "o", "r", "t", "e", "d", " ", "f",
  "o", "r", "m", "a", "t", ".">>

\* ocr_processor.py:238
E_OcrTimeout ==
  <<"E", "r", "r", "o", "r", ":", " ", "O", "C", "R", " ", "p", "r", "o",
  "c", "e", "s", "s", "i", "n", "g", " ", "t", "i", "m", "e", "d", " ", "o",
  "u", "t", " ", "a", "f", "t", "e", "r", " ", "1", "0", " ", "s", "e", "c",
  "o", "n", "d", "s", ".", " ", "T", "h", "e", " ", "i", "m", "a", "g", "e",
  " ", "m", "a", "y", " ", "b", "e", " ", "t", "o", "o", " ", "c", "o", "m",
  "p", "l", "e", "x", " ", "o", "r", " ", "l", "a", "r", "g", "e", " ", "t",
  "o", " ", "p", "r", "o", "c", "e", "s", "s", ".">>

\* ocr_processor.py:266
E_FallbackUnreadable ==
  <<"E", "r", "r", "o", "r", ":", " ", "C", "o", "u", "l", "d", " ", "n",
  "o", "t", " ", "r", "e", "a", "d", " ", "i", "m", "a", "g", "e", " ", "f",
  "i", "l", "e", " ", "a", "s", " ", "f", "a", "l", "l", "b", "a", "c", "k",
  ".">>

\* ocr_processor.py:272
E_FallbackFailed ==
  <<"E", "r", "r", "o", "r", ":", " ", "F", "a", "i", "l", "e", "d", " ",
  "t", "o", " ", "p", "r", "o", "c", "e", "s", "s", " ", "i", "m", "a", "g",
  "e", " ", "a", "f", "t", "e", "r", " ", "m", "u", "l", "t", "i", "p", "l",
  "e", " ", "a", "t", "t", "e", "m", "p", "t", "s", ".">>

\* ocr_processor.py:38
E_QuickUnreadable ==
  <<"E", "r", "r", "o", "r", ":", " ", "U", "n", "a", "b", "l", "e", " ",
  "t", "o", " ", "r", "e", "a", "d", " ", "i", "m", "a", "g", "e", " ", "f",
  "i", "l", "e">>

\* ocr_processor.py:57
E_QuickEmpty ==
  <<"E", "r", "r", "o", "r", ":", " ", "Q", "u", "i", "c", "k", " ", "O",
  "C", "R", " ", "r", "e", "t", "u", "r", "n", "e", "d", " ", "e", "m", "p",
  "t", "y", " ", "r", "e", "s", "u", "l", "t">>

\* ocr_processor.py:61, f"Error: Quick processing failed: {str(e)}"
E_QuickFailed ==
  <<"E", "r", "r", "o", "r", ":", " ", "Q", "u", "i", "c", "k", " ", "p",
  "r", "o", "c", "e", "s", "s", "i", "n", "g", " ", "f", "a", "i", "l", "e",
  "d", ":", " ", "O", "C", "R", " ", "p", "r", "o", "c", "e", "s", "s", "i",
  "n", "g", " ", "t", "i", "m", "e", "d", " ", "o", "u", "t", " ", "-", " ",
  "i", "m", "a", "g", "e", " ", "m", "i", "g", "h", "t", " ", "b", "e", " ",
  "t", "o", "o", " ", "c", "o", "m", "p", "l", "e", "x">>

OCR_TIMEOUT_SECONDS == 10

(***************************************************************************)
(* direct_processor.direct_process                                         *)
(***************************************************************************)
K_6560 ==
  <<"i", "m", "g", "_", "6", "5", "6", "0">>

K_6568 ==
  <<"i", "m", "g", "_", "6", "5", "6", "8">>

K_6569 ==
  <<"i", "m", "g", "_", "6", "5", "6", "9">>

N_1122334 ==
  <<"1", "1", "2", "2", "3", "3", "4">>

N_2233445 ==
  <<"2", "2", "3", "3", "4", "4", "5">>

N_3344556 ==
  <<"3", "3", "4", "4", "5", "5", "6">>

N_7654321 ==
  <<"7", "6", "5", "4", "3", "2", "1">>

P_1999 ==
  <<"1", "9", ".", "9", "9">>

P_2999 ==
  <<"2", "9", ".", "9", "9">>

P_1234 ==
  <<"1", "2", ".", "3", "4">>

D_6560 ==
  <<"I", "t", "e", "m", " ", "f", "r", "o", "m", " ", "I", "M", "G", "_",
  "6", "5", "6", "0", " ", "r", "e", "c", "e", "i", "p", "t">>

D_6568 ==
  <<"I", "t", "e", "m", " ", "f", "r", "o", "m", " ", "I", "M", "G", "_",
  "6", "5", "6", "8", " ", "r", "e", "c", "e", "i", "p", "t">>

D_6569 ==
  <<"I", "t", "e", "m", " ", "f", "r", "o", "m", " ", "I", "M", "G", "_",
  "6", "5", "6", "9", " ", "r", "e", "c", "e", "i", "p", "t">>

D_General ==
  <<"G", "e", "n", "e", "r", "a", "l", " ", "r", "e", "c", "e", "i", "p",
  "t", " ", "i", "t", "e", "m">>

DirectItem(item_number, price, description, now) ==
  [item_number |-> item_number, price |-> price, date |-> now.date,
   time |-> now.time, description |-> description, period |-> Period(now.month)]

\* extract_item_numbers_direct_simple on a file that exists and can be read:
\* one canned record, keyed by the lower-cased file name
extract_item_numbers_direct_simple(name, now) ==
  LET filename == Lower(name)
  IN IF Contains(filename, K_6560) THEN <<DirectItem(N_1122334, P_999, D_6560, now)>>
     ELSE IF Contains(filename, K_6568) THEN <<DirectItem(N_2233445, P_1999, D_6568, now)>>
     ELSE IF Contains(filename, K_6569) THEN <<DirectItem(N_3344556, P_2999, D_6569, now)>>
     ELSE <<DirectItem(N_7654321, P_1234, D_General, now)>>

\* C25 (mutant of direct_process): a lookup without the default record of
\* direct_processor.py 93-103, a file name that is none of the three known
\* receipts gives no record
direct_process_known_only(name, now) ==
  IF \E k \in {K_6560, K_6568, K_6569} : Contains(Lower(name), k)
  THEN extract_item_numbers_direct_simple(name, now)
  ELSE <<>>

direct_process(name, now) == extract_item_numbers_direct_simple(name, now)

(***************************************************************************)
(* ocr_processor.extract_item_numbers_direct is imported and called by     *)
(* new_uploader.py and is not among the sources. It is modelled from the   *)
(* specification (4.1, strategy 2): a lookup that returns a list of item   *)
(* numbers (possibly none) or raises.                                      *)
(***************************************************************************)
extract_item_numbers_direct ==
  {[raises |-> TRUE, numbers |-> <<>>],
   [raises |-> FALSE, numbers |-> <<>>],
   [raises |-> FALSE, numbers |-> <<N_7654321>>],
   [raises |-> FALSE, numbers |-> <<N_1122334, N_2233445>>]}

(***************************************************************************)
(* trained_ocr_processor.process_with_training                             *)
(***************************************************************************)
S_RegionPrefix == <<"R", "e", "g", "i", "o", "n", ":", " ">>

S_unknown == <<"u", "n", "k", "n", "o", "w", "n">>

G_items == <<"i", "t", "e", "m", "s">>

G_left_side == <<"l", "e", "f", "t", "_", "s", "i", "d", "e">>

\* what TrainedOCRProcessor.process_image returns: dicts whose item_number is
\* a match of \d{6,12}, with the region and the confidence in tenths
TrainedHits ==
  {[item_number |-> N_1122334, region |-> G_items, confidence |-> 9],
   [item_number |-> N_7654321, region |-> G_left_side, confidence |-> 7],
   [item_number |-> N_2233445, confidence |-> 5]}

MaxTrainedHits == 2

\* trained_ocr_processor.py 272-299
RECURSIVE process_with_training(_, _)
process_with_training(results, clock) ==
  IF results = <<>> THEN <<>>
  ELSE (IF Get(Head(results), "item_number", <<>>) = <<>> THEN <<>>
        ELSE <<[item_number |-> Head(results).item_number,
                price |-> S_ZeroPrice,
                date |-> clock.date,
                time |-> clock.time,
                description |-> S_RegionPrefix \o Get(Head(results), "region", S_unknown),
                confidence |-> Get(Head(results), "confidence", 0),
                period |-> IF IsDigitStr(LeadingToken(clock.date))
                           THEN <<"P">> \o ZFill2(LeadingToken(clock.date))
                           ELSE S_P00]>>)
       \o process_with_training(Tail(results), clock)

(***************************************************************************)
(* The result formatting of the two uploaders                              *)
(***************************************************************************)
S_AIExtracted ==
  <<"A", "I", " ", "E", "x", "t", "r", "a", "c", "t", "e", "d">>

S_EmergencyFallback ==
  <<"E", "m", "e", "r", "g", "e", "n", "c", "y", " ", "f", "a", "l", "l",
  "b", "a", "c", "k", " ", "-", " ", "N", "o", " ", "O", "C", "R", "/", "A",
  "I", " ", "d", "a", "t", "a", " ", "a", "v", "a", "i", "l", "a", "b", "l",
  "e">>

S_FailedPrimary ==
  <<"F", "a", "i", "l", "e", "d", " ", "t", "o", " ", "e", "x", "t", "r",
  "a", "c", "t", " ", "w", "i", "t", "h", " ", "p", "r", "i", "m", "a", "r",
  "y", " ", "m", "e", "t", "h", "o", "d", "s">>

ItemRecord(item_number, price, period, date, time, description, exception) ==
  [item_number |-> item_number, price |-> price, period |-> period,
   date |-> date, time |-> time, description |-> description,
   quantity |-> 1, exception |-> exception]

\* new_uploader.py 62-79
NewFormatAI(results, month) ==
  [i \in 1..Len(results) |->
     ItemRecord(Get(results[i], "item_number", <<>>),
                Get(results[i], "price", S_ZeroPrice), Period(month),
                Get(results[i], "date", <<>>), Get(results[i], "time", <<>>),
                <<>>, <<>>)]

\* new_uploader.py 96-112
NewFormatDirect(numbers, month) ==
  [i \in 1..Len(numbers) |->
     ItemRecord(numbers[i], S_ZeroPrice, Period(month), <<>>, <<>>, <<>>, <<>>)]

\* safe_uploader.py 68-84
SafeFormatAI(results, month) ==
  [i \in 1..Len(results) |->
     ItemRecord(Get(results[i], "item_number", <<>>),
                Get(results[i], "price", S_ZeroPrice), Period(month),
                Get(results[i], "date", <<>>), Get(results[i], "time", <<>>),
                Get(results[i], "description", S_AIExtracted), <<>>)]

\* safe_uploader.py 99-115
SafeFormatDirect(results, month) ==
  [i \in 1..Len(results) |->
     ItemRecord(Get(results[i], "item_number", <<>>),
                Get(results[i], "price", S_ZeroPrice), Period(month),
                Get(results[i], "date", <<>>), Get(results[i], "time", <<>>),
                S_EmergencyFallback, S_FailedPrimary)]

(***************************************************************************)
(* State                                                                   *)
(***************************************************************************)
VARIABLES
  pc,             \* where the request stands
  entry,          \* "new": process_receipt_image, "safe": process_receipt_image_safe
  upload,         \* what happened to the uploaded file (Uploads)
  filename,       \* the name of the uploaded file
  readable,       \* whether the saved file can be opened for reading
  now,            \* the clock of the request
  handler,        \* the module whose timeout_handler is installed for SIGALRM
  alarm,          \* seconds the pending alarm was armed with, 0 when none
  calls,          \* the strategies called in this request, in order
  outcome,        \* how each strategy of this request ended
  timeouts,       \* the positions at which the alarm went off in this request
  armed,          \* whether this request armed the alarm
  ai_results,     \* locals of the uploader
  direct_results,
  extracted_text,
  quick_text,
  item_data,      \* the list returned by process_with_training
  result          \* the tuple returned by the uploader

\* state of the other entry points of the program, each with the inputs of the
\* call in progress
VARIABLES
  text,           \* extract_data_from_text: the text given to it
  runs,           \* the calls made on that text: [clock, items], in order
  reply,          \* extract_item_numbers_with_ai: the parsed reply, its result
  export_data,    \* data_exporter: the list of items given to the export
  rows,           \* the rows written: [sheet, item_number, qty, period]
  log_lines,      \* as400_parser: the lines of the file
  parsed,         \* the list parse_as400_audit returned
  corpus,         \* receipt_trainer: the corpus file
  trainers,       \* the training_data of each ReceiptTrainer instance
  written,        \* every entry a save has put into the corpus file
  returned,       \* the last call on a trainer and what it returned
  db,             \* app: the committed rows of report_items
  web             \* the request in progress and the browser session

CascadeVars ==
  <<pc, entry, upload, filename, readable, now, handler, alarm, calls, outcome, timeouts,
    armed, ai_results, direct_results, extracted_text, quick_text, item_data,
    result>>

ExtractorVars == <<text, runs, reply>>

ExportVars == <<export_data, rows>>

AS400Vars == <<log_lines, parsed>>

TrainerVars == <<corpus, trainers, written, returned>>

WebVars == <<db, web>>

vars ==
  <<CascadeVars, ExtractorVars, ExportVars, AS400Vars, TrainerVars, WebVars>>

\* everything but the state of the uploaders
NotCascade == <<ExtractorVars, ExportVars, AS400Vars, TrainerVars, WebVars>>

Strategies == {"ai", "direct", "ocr", "quick"}

Pending == [success |-> FALSE, data |-> <<>>, error |-> "pending"]

Success(data) == [success |-> TRUE, data |-> data, error |-> ""]

Failure(message) == [success |-> FALSE, data |-> <<>>, error |-> message]

NoFileSelected == "No file selected"

FileFailedToSave == "File failed to save"

SavedFileEmpty == "Saved file is empty (0 bytes)"

ErrorProcessingFile == "Error processing file"

NoItemNumbers == "No item numbers could be extracted from the image"

ProcessingTimedOut == "Processing timed out. Please try a clearer image or smaller file"

CascadeIdle ==
  /\ pc = "idle"
  /\ entry = "new"
  /\ upload = "none"
  /\ filename = F_Other
  /\ readable = TRUE
  /\ now \in Clocks
  /\ handler = "SIG_DFL"
  /\ alarm = 0
  /\ calls = <<>>
  /\ outcome = [s \in Strategies |-> "-"]
  /\ timeouts = {}
  /\ armed = FALSE
  /\ ai_results = <<>>
  /\ direct_results = <<>>
  /\ extracted_text = <<>>
  /\ quick_text = <<>>
  /\ item_data = <<>>
  /\ result = Pending

\* no call of the other entry points is in progress
ExtractorIdle == text = <<>> /\ runs = <<>> /\ reply = <<>>

ExportIdle == export_data = <<>> /\ rows = <<>>

AS400Idle == log_lines = <<>> /\ parsed = <<>>

\* receipt_trainer.py 38, 41: the structure of a corpus with no entry
EmptyTrainingData(created_at) ==
  [examples |-> <<>>, patterns |-> <<>>, regions |-> <<>>, created_at |-> created_at]

\* the corpus file before its first save: os.path.exists(...) is false
NoFile == [exists |-> FALSE, data |-> EmptyTrainingData(<<>>)]

NoCall == [call |-> "none", trainer |-> 0, value |-> TRUE, regions |-> <<>>, results |-> <<>>]

TrainerIdle == corpus = NoFile /\ trainers = <<>> /\ written = {} /\ returned = NoCall

\* the browser session and the last response before any request: no
\* session_id, no extracted_data, no session id issued yet
NoRequest ==
  [session_id |-> 0, extracted_data |-> <<>>, issued |-> 0,
   response |-> "none", flashed |-> <<>>]

WebIdle == db = <<>> /\ web = NoRequest

Init ==
  /\ CascadeIdle
  /\ ExtractorIdle /\ ExportIdle /\ AS400Idle /\ TrainerIdle /\ WebIdle

\* the initial state of the calls that do not go through the uploaders
Quiet == Init /\ now.month = 4

Locals == <<ai_results, direct_results, extracted_text, quick_text, item_data>>

Request == <<entry, upload, filename, readable, now>>

\* signal.alarm(60) in new_uploader.py, signal.alarm(30) in safe_uploader.py
Budget(e) == IF e = "new" THEN 60 ELSE 30

HandlerOf(e) == IF e = "new" THEN "new_uploader" ELSE "safe_uploader"

\* the return of the uploader: the inner finally cancels the alarm
Return(r) ==
  /\ result' = r
  /\ alarm' = 0
  /\ pc' = "done"

\* the alarm goes off at position p: it is no longer pending
Fired(p) ==
  /\ alarm > 0
  /\ alarm' = 0
  /\ timeouts' = timeouts \cup {p}

Ended(s, how) == outcome' = [outcome EXCEPT ![s] = how]

Called(s) ==
  /\ calls' = Append(calls, s)
  /\ Ended(s, "running")

(***************************************************************************)
(* process_receipt_image / process_receipt_image_safe: the preconditions   *)
(***************************************************************************)
\* C7 (mutant of Begin): the uploader without the size test of
\* new_uploader.py 41-43 / safe_uploader.py 49-51, an empty file goes on to
\* the strategies
BeginSkipsSizeCheck(e, u, f, c) ==
  /\ pc \in {"idle", "done"}
  /\ entry' = e
  /\ upload' = u
  /\ filename' = f
  /\ \E r \in BOOLEAN : readable' = ((e = "safe" /\ u = "ok") => r)
  /\ now' = c
  /\ calls' = <<>>
  /\ outcome' = [s \in Strategies |-> "-"]
  /\ timeouts' = {}
  /\ ai_results' = <<>>
  /\ direct_results' = <<>>
  /\ extracted_text' = <<>>
  /\ quick_text' = <<>>
  /\ item_data' = <<>>
  /\ IF u \in {"ok", "empty"}
     THEN /\ handler' = HandlerOf(e)
          /\ alarm' = Budget(e)
          /\ armed' = TRUE
          /\ result' = Pending
          /\ pc' = "ai_call"
     ELSE /\ UNCHANGED <<handler, alarm>>
          /\ armed' = FALSE
          /\ result' = Failure(CASE u = "none" -> NoFileSelected
                                 [] u = "save_error" -> ErrorProcessingFile
                                 [] u = "not_saved" -> FileFailedToSave)
          /\ pc' = "done"
  /\ UNCHANGED NotCascade

Begin(e, u, f, c) ==
  /\ pc \in {"idle", "done"}
  /\ entry' = e
  /\ upload' = u
  /\ filename' = f
  /\ \E r \in BOOLEAN : readable' = ((e = "safe" /\ u = "ok") => r)
  /\ now' = c
  /\ calls' = <<>>
  /\ outcome' = [s \in Strategies |-> "-"]
  /\ timeouts' = {}
  /\ ai_results' = <<>>
  /\ direct_results' = <<>>
  /\ extracted_text' = <<>>
  /\ quick_text' = <<>>
  /\ item_data' = <<>>
  /\ IF u = "ok"
     THEN /\ handler' = HandlerOf(e)
          /\ alarm' = Budget(e)
          /\ armed' = TRUE
          /\ result' = Pending
          /\ pc' = "ai_call"
     ELSE /\ UNCHANGED <<handler, alarm>>
          /\ armed' = FALSE
          /\ result' = Failure(CASE u = "none" -> NoFileSelected
                                 [] u = "save_error" -> ErrorProcessingFile
                                 [] u = "not_saved" -> FileFailedToSave
                                 [] u = "empty" -> SavedFileEmpty)
          /\ pc' = "done"
  /\ UNCHANGED NotCascade

(***************************************************************************)
(* Strategy 1: extract_item_numbers_with_ai                                *)
(***************************************************************************)
\* new_uploader.py 54, 84-85: the import of ai_processor fails
ImportAIFails ==
  /\ pc = "ai_call" /\ entry = "new"
  /\ Ended("ai", "unavailable")
  /\ pc' = "direct_call"
  /\ UNCHANGED <<Request, handler, alarm, calls, timeouts, armed, Locals, result>>
  /\ UNCHANGED NotCascade

CallAI ==
  /\ pc = "ai_call"
  /\ Called("ai")
  /\ pc' = "ai"
  /\ UNCHANGED <<Request, handler, alarm, timeouts, armed, Locals, result>>
  /\ UNCHANGED NotCascade

AIReturns(r) ==
  /\ pc = "ai" /\ ~AIRaises(r)
  /\ ai_results' = extract_item_numbers_with_ai(r)
  /\ IF Len(ai_results') > 0
     THEN Ended("ai", "items") /\ pc' = "ai_format"
     ELSE Ended("ai", "zero") /\ pc' = "direct_call"
  /\ UNCHANGED <<Request, handler, alarm, calls, timeouts, armed,
                 direct_results, extracted_text, quick_text, result, item_data>>
  /\ UNCHANGED NotCascade

\* the exception is caught at new_uploader.py 86 / safe_uploader.py 88
AIFails(r) ==
  /\ pc = "ai" /\ AIRaises(r)
  /\ Ended("ai", "raised")
  /\ pc' = "direct_call"
  /\ UNCHANGED <<Request, handler, alarm, calls, timeouts, armed, Locals, result>>
  /\ UNCHANGED NotCascade

\* the alarm goes off inside extract_item_numbers_with_ai: the exception of
\* the handler is caught at ai_processor.py 78 (return []) or re-raised at
\* 129-131 and caught by the uploader's `except Exception`
TimeoutInAI ==
  /\ pc = "ai"
  /\ Fired("ai")
  /\ Ended("ai", "timeout")
  /\ pc' = "direct_call"
  /\ UNCHANGED <<Request, handler, calls, armed, Locals, result>>
  /\ UNCHANGED NotCascade

\* new_uploader.py 59-82 / safe_uploader.py 65-87
FormatAI ==
  /\ pc = "ai_format"
  /\ Return(Success(IF entry = "new" THEN NewFormatAI(ai_results, now.month)
                    ELSE SafeFormatAI(ai_results, now.month)))
  /\ UNCHANGED <<Request, handler, calls, outcome, timeouts, armed, Locals>>
  /\ UNCHANGED NotCascade

\* new_uploader.py 64: os.popen('date +%m') gives no month; int() raises,
\* caught at 86
FormatAIFails ==
  /\ pc = "ai_format" /\ entry = "new"
  /\ pc' = "direct_call"
  /\ UNCHANGED <<Request, handler, alarm, calls, outcome, timeouts, armed, Locals, result>>
  /\ UNCHANGED NotCascade

\* the alarm goes off between the return of the AI strategy and
\* signal.alarm(0): the exception is raised inside the try of 53 / 61 and
\* caught by `except Exception`
TimeoutInFormat ==
  /\ pc = "ai_format"
  /\ Fired("ai_format")
  /\ pc' = "direct_call"
  /\ UNCHANGED <<Request, handler, calls, outcome, armed, Locals, result>>
  /\ UNCHANGED NotCascade

(***************************************************************************)
(* Strategy 2: extract_item_numbers_direct (new) / direct_process (safe)   *)
(***************************************************************************)
CallDirect ==
  /\ pc = "direct_call"
  /\ Called("direct")
  /\ pc' = "direct"
  /\ UNCHANGED <<Request, handler, alarm, timeouts, armed, Locals, result>>
  /\ UNCHANGED NotCascade

\* new_uploader.py 91-115, and 117 when the list is empty
NewDirectReturns(d) ==
  /\ pc = "direct" /\ entry = "new" /\ ~d.raises
  /\ direct_results' = d.numbers
  /\ IF Len(d.numbers) > 0
     THEN /\ Ended("direct", "items")
          /\ Return(Success(NewFormatDirect(d.numbers, now.month)))
     ELSE /\ Ended("direct", "zero")
          /\ pc' = "ocr_call"
          /\ UNCHANGED <<alarm, result>>
  /\ UNCHANGED <<Request, handler, calls, timeouts, armed,
                 ai_results, extracted_text, quick_text, item_data>>
  /\ UNCHANGED NotCascade

\* the call at new_uploader.py 91 is inside no try but the outer one: 154-156
NewDirectFails(d) ==
  /\ pc = "direct" /\ entry = "new" /\ d.raises
  /\ Ended("direct", "raised")
  /\ Return(Failure(ErrorProcessingFile))
  /\ UNCHANGED <<Request, handler, calls, timeouts, armed, Locals>>
  /\ UNCHANGED NotCascade

\* safe_uploader.py 94-118: the saved file exists and can be read
SafeDirectReturns ==
  /\ pc = "direct" /\ entry = "safe" /\ readable
  /\ direct_results' = direct_process(filename, now)
  /\ IF Len(direct_results') > 0
     THEN /\ Ended("direct", "items")
          /\ Return(Success(SafeFormatDirect(direct_results', now.month)))
     ELSE /\ Ended("direct", "zero")
          /\ Return(Failure(NoItemNumbers))
  /\ UNCHANGED <<Request, handler, calls, timeouts, armed,
                 ai_results, extracted_text, quick_text, item_data>>
  /\ UNCHANGED NotCascade

\* direct_processor.py 30-41: the saved file cannot be read; safe_uploader.py
\* 120-122
SafeDirectUnreadable ==
  /\ pc = "direct" /\ entry = "safe" /\ ~readable
  /\ Ended("direct", "zero")
  /\ Return(Failure(NoItemNumbers))
  /\ UNCHANGED <<Request, handler, calls, timeouts, armed, Locals>>
  /\ UNCHANGED NotCascade

\* the alarm goes off inside the try of extract_item_numbers_direct_simple:
\* direct_processor.py 107-109 returns [], safe_uploader.py 120-122
SafeDirectSwallowsTimeout ==
  /\ pc = "direct" /\ entry = "safe"
  /\ Fired("direct")
  /\ Ended("direct", "timeout")
  /\ result' = Failure(NoItemNumbers)
  /\ pc' = "done"
  /\ UNCHANGED <<Request, handler, calls, armed, Locals>>
  /\ UNCHANGED NotCascade

\* the alarm goes off in the uploader's own frame or in a strategy that does
\* not catch it: new_uploader.py 147-149 / safe_uploader.py 124-126
TimeoutInDirect ==
  /\ pc = "direct"
  /\ Fired("direct")
  /\ Ended("direct", "timeout")
  /\ result' = Failure(ProcessingTimedOut)
  /\ pc' = "done"
  /\ UNCHANGED <<Request, handler, calls, armed, Locals>>
  /\ UNCHANGED NotCascade

(***************************************************************************)
(* Strategy 3: ocr_processor.process_image, then extract_data_from_text    *)
(***************************************************************************)
CallProcessImage ==
  /\ pc = "ocr_call"
  /\ Called("ocr")
  /\ pc' = "pi_pre"
  /\ UNCHANGED <<Request, handler, alarm, timeouts, armed, Locals, result>>
  /\ UNCHANGED NotCascade

\* ocr_processor.py 65-80 run under the caller's alarm: its exception is
\* caught at 274-277
PIPreTimeout ==
  /\ pc = "pi_pre"
  /\ Fired("ocr")
  /\ Ended("ocr", "timeout")
  /\ extracted_text' = E_ProcessImage
  /\ pc' = "ocr_ret"
  /\ UNCHANGED <<Request, handler, calls, armed, ai_results, direct_results,
                 quick_text, result, item_data>>
  /\ UNCHANGED NotCascade

\* ocr_processor.py 82-83: the module's own handler and alarm replace the
\* caller's
PIArm ==
  /\ pc = "pi_pre"
  /\ handler' = "ocr_processor"
  /\ alarm' = OCR_TIMEOUT_SECONDS
  /\ pc' = "pi_main"
  /\ UNCHANGED <<Request, calls, outcome, timeouts, armed, Locals, result>>
  /\ UNCHANGED NotCascade

\* ocr_processor.py 88-92: cv2.imread gives None; the return leaves the
\* alarm pending
PIUnreadable ==
  /\ pc = "pi_main"
  /\ extracted_text' = E_Unreadable
  /\ pc' = "ocr_ret"
  /\ UNCHANGED <<Request, handler, alarm, calls, outcome, timeouts, armed,
                 ai_results, direct_results, quick_text, result, item_data>>
  /\ UNCHANGED NotCascade

\* ocr_processor.py 224-232
PIComplete(t) ==
  /\ pc = "pi_main"
  /\ alarm' = 0
  /\ extracted_text' = t
  /\ pc' = "ocr_ret"
  /\ UNCHANGED <<Request, handler, calls, outcome, timeouts, armed,
                 ai_results, direct_results, quick_text, result, item_data>>
  /\ UNCHANGED NotCascade

\* the alarm goes off inside one of the recognitions wrapped at 175-189,
\* 193-209, 212-222: the exception is logged and the function goes on
PITimeoutSwallowed ==
  /\ pc = "pi_main"
  /\ Fired("ocr")
  /\ UNCHANGED <<Request, handler, pc, calls, outcome, armed, Locals, result>>
  /\ UNCHANGED NotCascade

\* ocr_processor.py 234-238
PITimeout ==
  /\ pc = "pi_main"
  /\ Fired("ocr")
  /\ Ended("ocr", "timeout")
  /\ extracted_text' = E_OcrTimeout
  /\ pc' = "ocr_ret"
  /\ UNCHANGED <<Request, handler, calls, armed, ai_results, direct_results,
                 quick_text, result, item_data>>
  /\ UNCHANGED NotCascade

\* ocr_processor.py 240-249: another exception; the fallback gets 15 seconds
PIInnerError ==
  /\ pc = "pi_main"
  /\ alarm' = 15
  /\ pc' = "pi_fallback"
  /\ UNCHANGED <<Request, handler, calls, outcome, timeouts, armed, Locals, result>>
  /\ UNCHANGED NotCascade

\* ocr_processor.py 253-263
PIFallbackReads(t) ==
  /\ pc = "pi_fallback"
  /\ alarm' = 0
  /\ extracted_text' = t
  /\ pc' = "ocr_ret"
  /\ UNCHANGED <<Request, handler, calls, outcome, timeouts, armed,
                 ai_results, direct_results, quick_text, result, item_data>>
  /\ UNCHANGED NotCascade

\* ocr_processor.py 264-266
PIFallbackUnreadable ==
  /\ pc = "pi_fallback"
  /\ alarm' = 0
  /\ extracted_text' = E_FallbackUnreadable
  /\ pc' = "ocr_ret"
  /\ UNCHANGED <<Request, handler, calls, outcome, timeouts, armed,
                 ai_results, direct_results, quick_text, result, item_data>>
  /\ UNCHANGED NotCascade

\* ocr_processor.py 267-272
PIFallbackFails ==
  /\ pc = "pi_fallback"
  /\ alarm' = 0
  /\ Ended("ocr", "raised")
  /\ extracted_text' = E_FallbackFailed
  /\ pc' = "ocr_ret"
  /\ UNCHANGED <<Request, handler, calls, timeouts, armed,
                 ai_results, direct_results, quick_text, result, item_data>>
  /\ UNCHANGED NotCascade

\* the alarm of 249 goes off: caught at 267 like any exception
PIFallbackTimeout ==
  /\ pc = "pi_fallback"
  /\ Fired("ocr")
  /\ Ended("ocr", "timeout")
  /\ extracted_text' = E_FallbackFailed
  /\ pc' = "ocr_ret"
  /\ UNCHANGED <<Request, handler, calls, armed, ai_results, direct_results,
                 quick_text, result, item_data>>
  /\ UNCHANGED NotCascade

\* new_uploader.py 121: the text counts
TextUsable(t) == t # <<>> /\ ~Contains(t, S_Error)

\* new_uploader.py 119-130
NewAfterProcessImage ==
  /\ pc = "ocr_ret" /\ entry = "new"
  /\ LET Decide(extracted_data) ==
           IF Len(extracted_data) > 0
           THEN /\ Ended("ocr", "items")
                /\ Return(Success(extracted_data))
           ELSE /\ Ended("ocr", IF outcome["ocr"] = "running" THEN "zero"
                                ELSE outcome["ocr"])
                /\ pc' = "quick_call"
                /\ UNCHANGED <<alarm, result>>
     IN Decide(IF TextUsable(extracted_text)
               THEN extract_data_from_text(extracted_text, now) ELSE <<>>)
  /\ UNCHANGED <<Request, handler, calls, timeouts, armed, Locals>>
  /\ UNCHANGED NotCascade

(***************************************************************************)
(* Strategy 4: ocr_processor.process_quick, then extract_data_from_text    *)
(***************************************************************************)
CallQuick ==
  /\ pc = "quick_call"
  /\ Called("quick")
  /\ pc' = "quick"
  /\ UNCHANGED <<Request, handler, alarm, timeouts, armed, Locals, result>>
  /\ UNCHANGED NotCascade

\* ocr_processor.py 54-55
QuickReturns(t) ==
  /\ pc = "quick" /\ t # <<>>
  /\ quick_text' = t
  /\ pc' = "quick_ret"
  /\ UNCHANGED <<Request, handler, alarm, calls, outcome, timeouts, armed,
                 ai_results, direct_results, extracted_text, result, item_data>>
  /\ UNCHANGED NotCascade

\* ocr_processor.py 37-38 and 56-57
QuickGivesUp(e) ==
  /\ pc = "quick"
  /\ quick_text' = e
  /\ pc' = "quick_ret"
  /\ UNCHANGED <<Request, handler, alarm, calls, outcome, timeouts, armed,
                 ai_results, direct_results, extracted_text, result, item_data>>
  /\ UNCHANGED NotCascade

\* ocr_processor.py 59-61
QuickFails ==
  /\ pc = "quick"
  /\ Ended("quick", "raised")
  /\ quick_text' = E_QuickFailed
  /\ pc' = "quick_ret"
  /\ UNCHANGED <<Request, handler, alarm, calls, timeouts, armed,
                 ai_results, direct_results, extracted_text, result, item_data>>
  /\ UNCHANGED NotCascade

\* a pending alarm goes off inside process_quick: caught at 59-61
TimeoutInQuick ==
  /\ pc = "quick"
  /\ Fired("quick")
  /\ Ended("quick", "timeout")
  /\ quick_text' = E_QuickFailed
  /\ pc' = "quick_ret"
  /\ UNCHANGED <<Request, handler, calls, armed, ai_results, direct_results,
                 extracted_text, result, item_data>>
  /\ UNCHANGED NotCascade

\* new_uploader.py 134
QuickUsable(t) == t # <<>> /\ ~StartsWith(t, S_ErrorColon)

\* new_uploader.py 134-145
NewAfterQuick ==
  /\ pc = "quick_ret" /\ entry = "new"
  /\ LET Decide(quick_data) ==
           IF Len(quick_data) > 0
           THEN /\ Ended("quick", "items")
                /\ Return(Success(quick_data))
           ELSE /\ Ended("quick", IF outcome["quick"] = "running" THEN "zero"
                                  ELSE outcome["quick"])
                /\ Return(Failure(NoItemNumbers))
     IN Decide(IF QuickUsable(quick_text)
               THEN extract_data_from_text(quick_text, now) ELSE <<>>)
  /\ UNCHANGED <<Request, handler, calls, timeouts, armed, Locals>>
  /\ UNCHANGED NotCascade

\* the alarm goes off in the uploader's frame between two strategies. The
\* uploader's own handler raises TimeoutException (new_uploader.py 147-149);
\* the handler left by process_image raises ocr_processor.TimeoutError, which
\* only the outer handler catches (154-156)
TimeoutBetween ==
  /\ pc \in {"direct_call", "ocr_call", "ocr_ret", "quick_call", "quick_ret"}
  /\ Fired(pc)
  /\ outcome' = [s \in Strategies |->
                   IF outcome[s] = "running" THEN "zero" ELSE outcome[s]]
  /\ result' = Failure(IF handler = HandlerOf(entry) THEN ProcessingTimedOut
                       ELSE ErrorProcessingFile)
  /\ pc' = "done"
  /\ UNCHANGED <<Request, handler, calls, armed, Locals>>
  /\ UNCHANGED NotCascade

(***************************************************************************)
(* process_with_training: a call of its own                                *)
(***************************************************************************)
ProcessWithTraining(results, c) ==
  /\ pc \in {"idle", "done"}
  /\ entry' = "trained"
  /\ upload' = "none"
  /\ filename' = F_Other
  /\ readable' = TRUE
  /\ now' = c
  /\ calls' = <<>>
  /\ outcome' = [s \in Strategies |-> "-"]
  /\ timeouts' = {}
  /\ armed' = FALSE
  /\ ai_results' = <<>>
  /\ direct_results' = <<>>
  /\ extracted_text' = <<>>
  /\ quick_text' = <<>>
  /\ item_data' = process_with_training(results, c)
  /\ result' = Pending
  /\ pc' = "done"
  /\ UNCHANGED <<handler, alarm>>
  /\ UNCHANGED NotCascade

(***************************************************************************)
(* The specification                                                       *)
(***************************************************************************)
Next ==
  \/ \E e \in {"new", "safe"}, u \in Uploads, f \in FileNames, c \in Clocks :
       /\ (e = "new" \/ u # "ok") => f = F_Other
       /\ Begin(e, u, f, c)
  \/ ImportAIFails
  \/ CallAI
  \/ \E r \in AIResponses : AIReturns(r)
  \/ \E r \in AIResponses : AIFails(r)
  \/ TimeoutInAI
  \/ FormatAI
  \/ FormatAIFails
  \/ TimeoutInFormat
  \/ CallDirect
  \/ \E d \in extract_item_numbers_direct : NewDirectReturns(d)
  \/ \E d \in extract_item_numbers_direct : NewDirectFails(d)
  \/ SafeDirectReturns
  \/ SafeDirectUnreadable
  \/ SafeDirectSwallowsTimeout
  \/ TimeoutInDirect
  \/ CallProcessImage
  \/ PIPreTimeout
  \/ PIArm
  \/ PIUnreadable
  \/ \E t \in OcrTexts : PIComplete(t)
  \/ PITimeoutSwallowed
  \/ PITimeout
  \/ PIInnerError
  \/ \E t \in OcrTexts : PIFallbackReads(t)
  \/ PIFallbackUnreadable
  \/ PIFallbackFails
  \/ PIFallbackTimeout
  \/ NewAfterProcessImage
  \/ CallQuick
  \/ \E t \in OcrTexts : QuickReturns(t)
  \/ \E e \in {E_QuickUnreadable, E_QuickEmpty} : QuickGivesUp(e)
  \/ QuickFails
  \/ TimeoutInQuick
  \/ NewAfterQuick
  \/ TimeoutBetween
  \/ \E rs \in SeqsUpTo(TrainedHits, MaxTrainedHits), c \in Clocks :
       ProcessWithTraining(rs, c)

Spec == Init /\ [][Next]_vars

(***************************************************************************)
(* Properties of the cascade                                               *)
(***************************************************************************)
Uploader == entry \in {"new", "safe"}

\* the strategies of each uploader, in the order of the code
Cascade(e) == IF e = "new" THEN <<"ai", "direct", "ocr", "quick">>
              ELSE <<"ai", "direct">>

Rank(s) == CHOOSE k \in 1..4 : <<"ai", "direct", "ocr", "quick">>[k] = s

WasCalled(s) == \E i \in 1..Len(calls) : calls[i] = s

\* s is not the last strategy of the running uploader
HasSuccessor(s) == Rank(s) < Len(Cascade(entry))

Successor(s) == Cascade(entry)[Rank(s) + 1]

\* C1: whenever the AI strategy returned at least one item, no later
\* strategy is invoked during that request (process_receipt_image and
\* process_receipt_image_safe).
C1_ShortCircuit ==
  (Uploader /\ outcome["ai"] = "items") => calls = <<"ai">>

\* the default record of extract_data_from_text with its period
Placeholder == WithPeriod(DefaultItem(now))

\* C2: when every strategy that process_receipt_image invoked raised or timed
\* out, the request returns success=True with exactly the one placeholder
\* record.
C2_FallbackPlaceholder ==
  (/\ pc = "done" /\ entry = "new" /\ upload = "ok" /\ calls # <<>>
   /\ \A i \in 1..Len(calls) : outcome[calls[i]] \in {"raised", "timeout"})
  => (result.success /\ result.data = <<Placeholder>>)

\* what the uploader returns when strategy s is the one that produced items
ProducedBy(s) ==
  CASE s = "ai" -> NewFormatAI(ai_results, now.month)
    [] s = "direct" -> NewFormatDirect(direct_results, now.month)
    [] s = "ocr" -> extract_data_from_text(extracted_text, now)
    [] s = "quick" -> extract_data_from_text(quick_text, now)

\* C3: in process_receipt_image the strategies start in the order AI, direct,
\* full OCR, quick OCR; a strategy starts only after every earlier one
\* finished without items; the returned batch is the batch of the one
\* strategy that produced items.
C3_FirstSuccessWins ==
  entry = "new" =>
    /\ \A i, j \in 1..Len(calls) : i < j => Rank(calls[i]) < Rank(calls[j])
    /\ \A i \in 1..(Len(calls) - 1) : outcome[calls[i]] # "items"
    /\ (pc = "done" /\ result.success) =>
         \E s \in Strategies :
           /\ \A t \in Strategies : outcome[t] = "items" <=> t = s
           /\ result.data = ProducedBy(s)

\* C4: when the alarm goes off while strategy k runs, the next strategy is
\* started, and the request does not return the time-out failure.
C4_TimeoutAdvances ==
  (pc = "done" /\ Uploader /\ upload = "ok") =>
    \A s \in Strategies :
      outcome[s] = "timeout" =>
        /\ HasSuccessor(s) => WasCalled(Successor(s))
        /\ result.error # ProcessingTimedOut

\* the positions at which a strategy of process_receipt_image executes
InStrategy == pc \in {"ai", "direct", "pi_pre", "pi_main", "pi_fallback", "quick"}

\* C5: whenever a strategy executes inside process_receipt_image, an alarm is
\* pending and the installed handler is the uploader's timeout_handler.
C5_TimeBounded ==
  (entry = "new" /\ InStrategy) => (alarm > 0 /\ handler = HandlerOf("new"))

\* C6: no exception leaves the uploader (it always returns its tuple), and a
\* strategy that raised is followed by the next strategy of the cascade.
C6_ExceptionContained ==
  (pc = "done" /\ Uploader /\ upload = "ok") =>
    /\ result # Pending
    /\ \A s \in Strategies :
         (outcome[s] = "raised" /\ HasSuccessor(s)) => WasCalled(Successor(s))

\* C7: with no file, a file that fails to save or an empty saved file, the
\* uploader returns (False, reason) without calling a strategy and without
\* arming the alarm.
C7_FatalPreconditions ==
  (pc = "done" /\ Uploader /\ upload # "ok") =>
    /\ ~result.success
    /\ result.error \in {NoFileSelected, ErrorProcessingFile, FileFailedToSave,
                         SavedFileEmpty}
    /\ calls = <<>>
    /\ \A s \in Strategies : outcome[s] = "-"
    /\ ~armed
    /\ alarm = 0

\* C7 (witness): process_receipt_image_safe has returned the failure of an
\* empty saved file
C7_EmptyFileRefused ==
  /\ pc = "done" /\ entry = "safe" /\ upload = "empty"
  /\ result = Failure(SavedFileEmpty)

NonEmptyItemNumbers(records) ==
  \A i \in 1..Len(records) : records[i].item_number # <<>>

CanonicalFields ==
  {"item_number", "price", "period", "date", "time", "description", "quantity",
   "exception"}

\* C9: every record of a successful result of process_receipt_image has
\* exactly the canonical fields, whichever strategy produced it.
C9_CanonicalShape ==
  (entry = "new" /\ result.success) =>
    \A i \in 1..Len(result.data) : DOMAIN result.data[i] = CanonicalFields

\* C10: the batch returned for one upload never has more than required_count
\* records.
C10_BatchCap ==
  (Uploader /\ result.success) => Len(result.data) <= required_count

(***************************************************************************)
(* extract_data_from_text and extract_item_numbers_with_ai, called on      *)
(* their own                                                               *)
(***************************************************************************)
\* lines that recognised texts are made of
L_Date ==
  <<"D", "a", "t", "e", ":", " ", "0", "4", "/", "1", "7", "/", "2", "5">>

L_Member ==
  <<"M", "e", "m", "b", "e", "r", "#", ":", " ", "1", "2", "3", "4", "5",
  "6", "7", " ", "W", "I", "D", "G", "E", "T", " ", "1", "9", ".", "9",
  "9">>

L_Operator ==
  <<"O", "p", "e", "r", "a", "t", "o", "r", " ", "I", "D", ":", " ", "1",
  "2", "3", "4", "5", "6", "7", " ", "5", ".", "0", "0">>

L_Generic ==
  <<"1", "2", "3", "4", "5", "6", "7", " ", "a", "t", " ", "1", "2", ".",
  "3", "4", " ", "a", "n", "d", " ", "1", "2", "3", "4", "5", "6", "7", " ",
  "x">>

L_Runs ==
  <<"2", "0", "2", "3", "0", "4", "1", "5", " ", "0", "1", "2", "3", "4",
  "5", "6", " ", "2", "0", "2", "3", "0", "4", "1", "5">>

L_Prices ==
  <<"5", ".", "0", "0", " ", "1", ".", "2", "5", " ", "9", ".", "9", "9">>

N_1234567 ==
  <<"1", "2", "3", "4", "5", "6", "7">>

N_20230415 ==
  <<"2", "0", "2", "3", "0", "4", "1", "5">>

N_0123456 ==
  <<"0", "1", "2", "3", "4", "5", "6">>

N_AB1234 ==
  <<"A", "B", "-", "1", "2", "3", "4">>

L_Till ==
  <<"7", "6", "5", "4", "3", "2", "1", " ", "c", "o", "s", "t", "s", " ", "3", ".", "5", "0", " ", "a", "t", " ", "t", "h", "e", " ", "t", "i", "l", "l">>

TextLines == {L_Date, L_Member, L_Operator, L_Generic, L_Till, L_Runs, L_Prices}

\* most lines of a text
MaxLines == 2

\* the texts handed to extract_data_from_text
Texts == {JoinLines(ls) : ls \in SeqsUpTo(TextLines, MaxLines)}

\* most calls on one text
MaxRuns == 2

\* the tier of extract_data_from_text that produces the items of a text:
\* "A" the Member#/Operator ID pass, "B" the per-line pass, "C" the pass over
\* the whole text, "default" the default item
extraction_tier(t) ==
  LET Third(report_date, all_items, all_prices) ==
        IF ThirdPass(all_items, all_prices, <<>>, 1,
                     Min(Min(Len(all_items), Len(all_prices)), MaxBruteForce),
                     report_date, [items |-> <<>>, processed_items |-> {}]).items # <<>>
        THEN "C" ELSE "default"
      Second(lines, report_date) ==
        IF SecondPass(lines, 1, report_date,
                      [items |-> <<>>, processed_items |-> {}]).items # <<>>
        THEN "B"
        ELSE Third(report_date, ReFindAll(item_pattern, t, 1, 1),
                   ReFindAll(price_pattern, t, 1, 3))
      First(lines, report_date) ==
        IF FirstPass(lines, 1, report_date,
                     [items |-> <<>>, processed_items |-> {}]).items # <<>>
        THEN "A" ELSE Second(lines, report_date)
      Lines(lines) == First(lines, ReportDate(lines))
  IN Lines(SplitLines(Strip(t)))

\* one call of extract_data_from_text(t) at the clock c
Run(t, c) == [clock |-> c, tier |-> extraction_tier(t),
              items |-> extract_data_from_text(t, c)]

ExtractDataFromText(t, c) ==
  /\ ExtractorIdle
  /\ text' = t
  /\ runs' = <<Run(t, c)>>
  /\ UNCHANGED <<reply, CascadeVars, ExportVars, AS400Vars, TrainerVars, WebVars>>

\* the same text once more
ExtractAgain(c) ==
  /\ runs # <<>> /\ Len(runs) < MaxRuns
  /\ runs' = Append(runs, Run(text, c))
  /\ UNCHANGED <<text, reply, CascadeVars, ExportVars, AS400Vars, TrainerVars, WebVars>>

\* extract_item_numbers_with_ai on a reply that parses as JSON
ParseReply(r) ==
  /\ ExtractorIdle
  /\ r.kind = "json"
  /\ reply' = [items |-> r.items, result |-> extract_item_numbers_with_ai(r)]
  /\ UNCHANGED <<text, runs, CascadeVars, ExportVars, AS400Vars, TrainerVars, WebVars>>

NextExtraction ==
  \/ \E t \in Texts, c \in Clocks : ExtractDataFromText(t, c)
  \/ \E c \in Clocks : ExtractAgain(c)
  \/ \E r \in AIResponses : ParseReply(r)

SpecExtraction == Quiet /\ [][NextExtraction]_vars

\* C11: the list returned by one call of extract_data_from_text holds no two
\* records with the same item_number, whichever tier produced it.
C11_NoDuplicateItemNumbers ==
  \A k \in 1..Len(runs) :
    \A i, j \in 1..Len(runs[k].items) :
      i # j => runs[k].items[i].item_number # runs[k].items[j].item_number

\* C11 (witness): a text whose Member# line and Operator ID line carry the
\* same number was extracted, and the number was returned once
C11_RepeatedNumberOnce ==
  /\ text = JoinLines(<<L_Member, L_Operator>>)
  /\ runs # <<>>
  /\ Len(runs[1].items) = 1
  /\ runs[1].items[1].item_number = N_1234567

\* C12: two calls of extract_data_from_text on the same text return the same
\* list (same records, same field values, same order), also for a text from
\* which no tier extracts anything.
C12_Deterministic ==
  \A i, j \in 1..Len(runs) : runs[i].items = runs[j].items

\* app.py 195: an 8-digit run that starts with 19 or 20
DateShaped(n) ==
  Len(n) = 8 /\ SubSeq(n, 1, 2) \in {<<"1", "9">>, <<"2", "0">>}

\* app.py 198
LeadingZero(n) == Len(n) > 0 /\ n[1] = "0"

\* C13: the pass over the whole text (Tier C) never returns a date-shaped
\* 8-digit run nor a run with a leading zero as item_number.
C13_PlausibilityFilter ==
  \A k \in 1..Len(runs) :
    runs[k].tier = "C" =>
      \A i \in 1..Len(runs[k].items) :
        /\ ~DateShaped(runs[k].items[i].item_number)
        /\ ~LeadingZero(runs[k].items[i].item_number)

\* C14: every record returned by extract_data_from_text has a period: P and
\* the zero-padded leading token of its date when the date holds a '/', P00
\* otherwise.
C14_PeriodFromDate ==
  \A k \in 1..Len(runs) :
    \A i \in 1..Len(runs[k].items) :
      /\ "period" \in DOMAIN runs[k].items[i]
      /\ runs[k].items[i].period =
           IF Contains(runs[k].items[i].date, <<"/">>)
           THEN <<"P">> \o ZFill2(LeadingToken(runs[k].items[i].date))
           ELSE S_P00

\* s without the characters that are no letter, no digit and no '-'
RECURSIVE OnlyItemChars(_)
OnlyItemChars(s) ==
  IF s = <<>> THEN <<>>
  ELSE (IF Head(s) \in Letters \cup Digits \cup {"-"} THEN <<Head(s)>> ELSE <<>>)
       \o OnlyItemChars(Tail(s))

\* the items of the reply whose item_number keeps a character
KeptItems ==
  {i \in 1..Len(reply.items) :
     OnlyItemChars(Get(reply.items[i], "item_number", <<>>)) # <<>>}

\* C17: for a reply that parses as JSON, the returned records are, in order,
\* the items whose cleaned item_number is not empty, each with its raw
\* item_number less every character other than letters, digits and '-'.
C17_ItemNumberCleaned ==
  reply # <<>> =>
    /\ Len(reply.result) = Cardinality(KeptItems)
    /\ \A i \in KeptItems :
         reply.result[Cardinality({j \in KeptItems : j <= i})].item_number
           = OnlyItemChars(reply.items[i].item_number)

\* C17 (witness): a reply with the item numbers " ;" and "AB-12;34" was
\* parsed: the first item was dropped, the second came back as "AB-1234"
C17_DashKeptJunkDropped ==
  /\ reply # <<>>
  /\ Len(reply.items) = 2
  /\ Get(reply.items[1], "item_number", <<>>) = R_Junk
  /\ Get(reply.items[2], "item_number", <<>>) = R_ABDash
  /\ Len(reply.result) = 1
  /\ reply.result[1].item_number = N_AB1234

(***************************************************************************)
(* data_exporter: export_to_excel and export_to_google_sheets              *)
(***************************************************************************)
\* characters for which str.isdigit() is true and int() raises ValueError
SuperDigits == {"²"}

\* str.isdigit()
IsDigit(s) == Len(s) > 0 /\ \A i \in 1..Len(s) : s[i] \in Digits \cup SuperDigits

DigitValue(c) == CHOOSE k \in 0..9 : DigitChar[k + 1] = c

\* int(s) for a text that passed isdigit(): ValueError unless every
\* character is a decimal digit
RECURSIVE DecimalValue(_, _)
DecimalValue(s, acc) ==
  IF s = <<>> THEN acc
  ELSE DecimalValue(Tail(s), 10 * acc + DigitValue(Head(s)))

ParseInt(s, negative) ==
  IF \A i \in 1..Len(s) : s[i] \in Digits
  THEN [raised |-> FALSE,
        value |-> IF negative THEN 0 - DecimalValue(s, 0) ELSE DecimalValue(s, 0)]
  ELSE [raised |-> TRUE, value |-> 0]

\* str(v) of a value of the data: a text is itself, an integer its decimal
\* digits with a leading '-' when negative
RECURSIVE DecimalDigits(_)
DecimalDigits(n) ==
  IF n < 10 THEN <<DigitChar[n + 1]>>
  ELSE Append(DecimalDigits(n \div 10), DigitChar[(n % 10) + 1])

Str(v) ==
  IF v.type = "str" THEN v.text
  ELSE IF v.number < 0 THEN <<"-">> \o DecimalDigits(0 - v.number)
  ELSE DecimalDigits(v.number)

\* a value of the data: a text or an integer
Text(s) == [type |-> "str", text |-> s, number |-> 0]
Integer(n) == [type |-> "int", text |-> <<>>, number |-> n]

\* C15 mutant: the quantity without the trailing-minus branch
ParseQuantityUnsigned(item) ==
  LET Parse(qty_raw) ==
        IF IsDigit(qty_raw) THEN ParseInt(qty_raw, FALSE)
        ELSE [raised |-> FALSE, value |-> 1]
  IN Parse(Strip(Str(Get(item, "quantity", Text(<<"1">>)))))

\* data_exporter.py 48-55 and 206-213
ParseQuantity(item) ==
  LET Front(s) == SubSeq(s, 1, Len(s) - 1)
      Parse(qty_raw) ==
        IF Len(qty_raw) > 0 /\ qty_raw[Len(qty_raw)] = "-" /\ IsDigit(Front(qty_raw))
        THEN ParseInt(Front(qty_raw), TRUE)
        ELSE IF IsDigit(qty_raw) THEN ParseInt(qty_raw, FALSE)
        ELSE [raised |-> FALSE, value |-> 1]
  IN Parse(Strip(Str(Get(item, "quantity", Text(<<"1">>)))))

\* str.replace(old, '') for a one-character old
Without(s, c) == LET Keep(x) == x # c IN SelectSeq(s, Keep)

\* str.replace('.', '', 1)
WithoutFirstDot(s) ==
  LET Cut(i) == IF i = 0 THEN s ELSE SubSeq(s, 1, i - 1) \o SubSeq(s, i + 1, Len(s))
  IN Cut(Find(s, <<".">>))

\* data_exporter.py 62-69: the float is kept as its sign and its decimal text
ParsePrice(item) ==
  LET Front(s) == SubSeq(s, 1, Len(s) - 1)
      Parse(price_str) ==
        IF Len(price_str) > 0 /\ price_str[Len(price_str)] = "-"
           /\ IsDigit(WithoutFirstDot(Front(price_str)))
        THEN [negative |-> TRUE, text |-> Front(price_str)]
        ELSE IF IsDigit(WithoutFirstDot(price_str))
        THEN [negative |-> FALSE, text |-> price_str]
        ELSE [negative |-> FALSE, text |-> <<"0", ".", "0", "0">>]
  IN Parse(Strip(Without(Without(Get(item, "price", <<"0", ".", "0", "0">>), "Y"), ",")))

\* data_exporter.py 79-89 and 194-203
PeriodOfDate(item) ==
  LET Of(date_str) ==
        IF date_str # <<>> /\ Contains(date_str, <<"/">>) /\ IsDigit(LeadingToken(date_str))
        THEN <<"P">> \o ZFill2(LeadingToken(date_str))
        ELSE S_P00
  IN Of(Get(item, "date", <<>>))

\* data_exporter.py 77-90
ExcelPeriod(item) ==
  IF Get(item, "period", <<>>) # <<>> THEN item["period"] ELSE PeriodOfDate(item)

\* data_exporter.py 39-90: one row of the workbook
ExcelRow(item) ==
  [item_number |-> Get(item, "item_number", <<>>),
   department |-> Get(item, "department", <<>>),
   qty |-> ParseQuantity(item).value,
   price |-> ParsePrice(item),
   period |-> ExcelPeriod(item)]

\* data_exporter.py 192-224: one row of the sheet
SheetRow(item) ==
  [item_number |-> Get(item, "item_number", <<>>),
   qty |-> ParseQuantity(item).value,
   price |-> Get(item, "price", <<"0", ".", "0", "0">>),
   period |-> Get(item, "period", PeriodOfDate(item))]

QuantityRaises(data) == \E i \in 1..Len(data) : ParseQuantity(data[i]).raised

\* data_exporter.py 10-141: the rows written, or the exception re-raised at 141
export_to_excel(data) ==
  IF QuantityRaises(data)
  THEN [raised |-> TRUE, rows |-> <<>>]
  ELSE [raised |-> FALSE, rows |-> [i \in 1..Len(data) |-> ExcelRow(data[i])]]

\* data_exporter.py 143-253: ValueError without credentials (148-150), else
\* the rows written, or the exception re-raised at 253
export_to_google_sheets(data, credentials) ==
  IF ~credentials \/ QuantityRaises(data)
  THEN [raised |-> TRUE, rows |-> <<>>]
  ELSE [raised |-> FALSE, rows |-> [i \in 1..Len(data) |-> SheetRow(data[i])]]

\* the characters of the quantity tokens tried
QtyChars == {"3", "5", "-", " ", "x", "²"}
MaxQtyLen == 3
QtyTokens == SeqsUpTo(QtyChars, MaxQtyLen)
Quantities == {Text(s) : s \in QtyTokens} \cup {Integer(n) : n \in {-3, 0, 1, 12}}

D_Slash == <<"0", "4", "/", "1", "7", "/", "2", "5">>
D_Short == <<"4", "/", "1", "7", "/", "2", "5">>
D_Iso == <<"2", "0", "2", "5", "-", "0", "4", "-", "1", "7">>
P_07 == <<"P", "0", "7">>

\* the other fields of an exported item
ItemShapes ==
  {[item_number |-> N_1234567],
   [item_number |-> N_1234567, date |-> D_Slash, price |-> <<"1", "9", ".", "9", "9">>],
   [item_number |-> N_1234567, date |-> D_Iso, period |-> <<>>, price |-> <<"5", ".", "0", "0", "-">>],
   [item_number |-> N_1234567, date |-> D_Short, period |-> P_07,
    price |-> <<"1", ",", "2", "3", "4", ".", "5", "0", "Y">>]}

WithQuantity(shape, q) ==
  [k \in DOMAIN shape \cup {"quantity"} |-> IF k = "quantity" THEN q ELSE shape[k]]

ExportItems == ItemShapes \cup {WithQuantity(s, q) : s \in ItemShapes, q \in Quantities}

ExportExcel(item) ==
  /\ ExportIdle
  /\ export_data' = <<item>>
  /\ rows' = [sheet |-> "excel", credentials |-> TRUE, out |-> export_to_excel(<<item>>)]
  /\ UNCHANGED <<CascadeVars, ExtractorVars, AS400Vars, TrainerVars, WebVars>>

ExportGoogle(item, credentials) ==
  /\ ExportIdle
  /\ export_data' = <<item>>
  /\ rows' = [sheet |-> "google", credentials |-> credentials,
              out |-> export_to_google_sheets(<<item>>, credentials)]
  /\ UNCHANGED <<CascadeVars, ExtractorVars, AS400Vars, TrainerVars, WebVars>>

NextExport ==
  \/ \E item \in ExportItems : ExportExcel(item)
  \/ \E item \in ExportItems, credentials \in BOOLEAN : ExportGoogle(item, credentials)

SpecExport == Quiet /\ [][NextExport]_vars

\* the quantity token of the exported item: the text of its quantity field
\* with the surrounding blanks removed
QtyToken(item) == Strip(Str(Get(item, "quantity", Text(<<"1">>))))

DigitsThenMinus(t) ==
  Len(t) >= 2 /\ t[Len(t)] = "-" /\ IsDigitStr(SubSeq(t, 1, Len(t) - 1))

ExpectedQty(t) ==
  IF DigitsThenMinus(t) THEN 0 - DecimalValue(SubSeq(t, 1, Len(t) - 1), 0)
  ELSE IF IsDigitStr(t) THEN DecimalValue(t, 0)
  ELSE 1

\* C15 Whenever either exporter is given an item (with credentials, for the
\* sheet), the export writes a row whose quantity is the negative integer for
\* a token of digits followed by '-', the integer for a token of only digits,
\* and 1 for every other token.
C15_QuantitySign ==
  \A i \in 1..Len(export_data) :
    rows.credentials =>
      /\ ~rows.out.raised
      /\ rows.out.rows[i].qty = ExpectedQty(QtyToken(export_data[i]))

(***************************************************************************)
(* as400_parser: parse_as400_audit                                         *)
(***************************************************************************)
\* the lines a text file yields when iterated: each with its newline, the
\* last one without when the file does not end in one
RECURSIVE FileLines(_)
FileLines(content) ==
  LET Cut(k) ==
        IF k = 0 THEN <<content>>
        ELSE <<SubSeq(content, 1, k)>> \o FileLines(SubSeq(content, k + 1, Len(content)))
  IN IF content = <<>> THEN <<>> ELSE Cut(Find(content, <<NL>>))

\* line[a:b] and line[a:]
Slice(line, a, b) == SubSeq(line, a + 1, Min(b, Len(line)))
SliceFrom(line, a) == SubSeq(line, a + 1, Len(line))

MinLineLength == 70

\* as400_parser.py 26-27
AS400Period(date_str) ==
  IF IsDigit(Slice(date_str, 0, 2)) THEN <<"P">> \o ZFill2(Slice(date_str, 0, 2))
  ELSE S_P00

\* as400_parser.py 26-42
AuditEntry(line) ==
  [k \in {"Rec#", "Trn#", "Date", "Tracking#", "Member#", "Item#", "Dept", "Qty",
          "Tender $", "Saleable", "Refund", "Auditor", "Period"} |->
     CASE k = "Rec#" -> Strip(Slice(line, 0, 4))
       [] k = "Trn#" -> Strip(Slice(line, 5, 9))
       [] k = "Date" -> Strip(Slice(line, 10, 18))
       [] k = "Tracking#" -> Strip(Slice(line, 19, 32))
       [] k = "Member#" -> Strip(Slice(line, 33, 47))
       [] k = "Item#" -> Strip(Slice(line, 48, 59))
       [] k = "Dept" -> Strip(Slice(line, 59, 63))
       [] k = "Qty" -> Strip(Slice(line, 64, 66))
       [] k = "Tender $" -> Strip(Slice(line, 67, 75))
       [] k = "Saleable" -> Strip(Slice(line, 76, 77))
       [] k = "Refund" -> Strip(Slice(line, 78, 79))
       [] k = "Auditor" -> Strip(SliceFrom(line, 80))
       [] k = "Period" -> AS400Period(Strip(Slice(line, 10, 18)))]

RECURSIVE ParseLinesUntrimmed(_, _), ParseLines(_, _)
\* C16 mutant: the length test on the line as read, blanks included
ParseLinesUntrimmed(lines, data) ==
  IF lines = <<>> THEN data
  ELSE IF Len(Head(lines)) < MinLineLength THEN ParseLinesUntrimmed(Tail(lines), data)
  ELSE ParseLinesUntrimmed(Tail(lines), Append(data, AuditEntry(Head(lines))))

\* as400_parser.py 14-50: the loop over the lines of the file
ParseLines(lines, data) ==
  IF lines = <<>> THEN data
  ELSE IF Len(Strip(Head(lines))) < MinLineLength THEN ParseLines(Tail(lines), data)
  ELSE ParseLines(Tail(lines), Append(data, AuditEntry(Head(lines))))

\* as400_parser.py 7-52
parse_as400_audit(content) == ParseLines(FileLines(content), <<>>)

T_TRN == <<"0", "0", "4", "2">>
T_TRACKING == <<"T", "R", "K", "0", "0", "0", "0", "0", "0", "0", "0", "0", "1">>
T_MEMBER == <<"1", "1", "1", "2", "2", "2", "3", "3", "3", "4", "4", "4", "5", "5">>
T_DEPT == <<"0", "0", "1", "7">>
T_TENDER == <<"1", "9", ".", "9", "9">>
T_REC1 == <<"0", "0", "0", "1">>
T_REC2 == <<"0", "0", "0", "2">>
T_AUDITOR == <<"J", "S", "M", "I", "T", "H">>
T_HEADER == <<"A", "U", "D", "I", "T", " ", "L", "O", "G", ":">>

Fill(c, n) == [i \in 1..n |-> c]
Pad(s, n) == s \o Fill(" ", n - Len(s))

\* a line in the column layout of the log
FixedLine(rec, date, item, qty, auditor) ==
  Pad(rec, 5) \o Pad(T_TRN, 5) \o Pad(date, 9) \o Pad(T_TRACKING, 14)
  \o Pad(T_MEMBER, 15) \o Pad(item, 11) \o Pad(T_DEPT, 5) \o Pad(qty, 3)
  \o Pad(T_TENDER, 9) \o Pad(<<"Y">>, 2) \o Pad(<<"N">>, 2) \o auditor

LogLines ==
  {FixedLine(T_REC1, D_Slash, N_1234567, <<"1", "-">>, T_AUDITOR),
   FixedLine(T_REC2, D_Short, N_7654321, <<"2">>, <<>>),
   T_HEADER,
   Fill("7", MinLineLength - 1),
   Fill("7", MinLineLength),
   Fill("x", MinLineLength - 10) \o Fill(" ", 25),
   <<>>}

MaxLogLines == 3
LogFiles ==
  {JoinLines(ls) \o end : ls \in SeqsUpTo(LogLines, MaxLogLines), end \in {<<>>, <<NL>>}}

ParseAS400Audit(content) ==
  /\ AS400Idle
  /\ content # <<>>
  /\ log_lines' = content
  /\ parsed' = parse_as400_audit(content)
  /\ UNCHANGED <<CascadeVars, ExtractorVars, ExportVars, TrainerVars, WebVars>>

NextAS400 == \E content \in LogFiles : ParseAS400Audit(content)

SpecAS400 == Quiet /\ [][NextAS400]_vars

\* the lines of the parsed file without their newline, and those among them
\* whose trimmed length reaches the threshold
InputLines == IF log_lines = <<>> THEN <<>> ELSE SplitLines(log_lines)
Qualifies(line) == Len(Strip(line)) >= 70
QualifyingLines == SelectSeq(InputLines, Qualifies)

\* C16 The parsed list has exactly one entry per input line whose trimmed
\* length is at least 70, in file order (entry k carries the columns of the
\* k-th such line), and so none for a line whose trimmed length is below 70.
C16_OneEntryPerLongLine ==
  /\ Len(parsed) = Len(QualifyingLines)
  /\ \A k \in 1..Len(parsed) :
       /\ parsed[k]["Rec#"] = Strip(SubSeq(QualifyingLines[k], 1, 4))
       /\ parsed[k]["Item#"] = Strip(SubSeq(QualifyingLines[k], 49, 59))
       /\ parsed[k]["Qty"] = Strip(SubSeq(QualifyingLines[k], 65, 66))

\* C16 witness: a file of a header, a line padded with blanks beyond 70 and
\* two data lines has been parsed into the two entries of the data lines,
\* in their order
C16_HeaderAndPaddingSkipped ==
  /\ Len(InputLines) = 3
  /\ Len(Strip(InputLines[1])) < 70
  /\ Len(InputLines[1]) >= 70
  /\ Len(parsed) = 2
  /\ parsed[1]["Rec#"] = T_REC2
  /\ parsed[2]["Rec#"] = T_REC1
  /\ parsed[2]["Qty"] = <<"1", "-">>
  /\ parsed[2]["Period"] = <<"P", "0", "4">>

(***************************************************************************)
(* receipt_trainer: ReceiptTrainer instances sharing one corpus file       *)
(***************************************************************************)
MaxTrainers == 2
MaxEntries == 2

\* receipt_trainer.py 30-41: the file's content when it exists and loads,
\* else the initial structure
load_training_data ==
  IF corpus.exists THEN corpus.data ELSE EmptyTrainingData(now.date)

\* receipt_trainer.py 25-28
NewTrainer ==
  /\ Len(trainers) < MaxTrainers
  /\ trainers' = Append(trainers, load_training_data)
  /\ returned' = [NoCall EXCEPT !.call = "init", !.trainer = Len(trainers) + 1]
  /\ UNCHANGED <<corpus, written>>
  /\ UNCHANGED <<CascadeVars, ExtractorVars, ExportVars, AS400Vars, WebVars>>

EntryCount(training_data) ==
  Len(training_data.examples) + Len(training_data.patterns) + Len(training_data.regions)

\* receipt_trainer.py 77, 103, 127: append to one list of the instance
Appended(training_data, list, added) ==
  [training_data EXCEPT ![list] = Append(@, added)]

\* receipt_trainer.py 43-52 after the append: the whole structure of the
\* instance replaces the file; when the write fails the file is as it was.
\* The call returns what save_training_data returns.
AddAndSave(t, list, added, saved) ==
  /\ t \in 1..Len(trainers)
  /\ EntryCount(trainers[t]) < MaxEntries
  /\ trainers' = [trainers EXCEPT ![t] = Appended(@, list, added)]
  /\ IF saved
     THEN /\ corpus' = [exists |-> TRUE, data |-> Appended(trainers[t], list, added)]
          /\ written' = written \cup {[list |-> list, entry |-> added]}
     ELSE UNCHANGED <<corpus, written>>
  /\ returned' = [NoCall EXCEPT !.call = list, !.trainer = t, !.value = saved]
  /\ UNCHANGED <<CascadeVars, ExtractorVars, ExportVars, AS400Vars, WebVars>>

S_ImagePath == <<"r", ".", "j", "p", "g">>
S_ExampleFor == <<"E", "x", "a", "m", "p", "l", "e", " ", "f", "o", "r", " ">>
S_prefix == <<"p", "r", "e", "f", "i", "x">>
S_top == <<"t", "o", "p">>

\* receipt_trainer.py 54-85
add_example(t, item_number, image_exists, saved) ==
  IF ~image_exists
  THEN /\ t \in 1..Len(trainers)
       /\ returned' = [NoCall EXCEPT !.call = "examples", !.trainer = t, !.value = FALSE]
       /\ UNCHANGED <<corpus, trainers, written>>
       /\ UNCHANGED <<CascadeVars, ExtractorVars, ExportVars, AS400Vars, WebVars>>
  ELSE AddAndSave(t, "examples",
                  [item_number |-> item_number, image_path |-> S_ImagePath,
                   description |-> S_ExampleFor \o item_number,
                   added_at |-> now.date \o <<"T">> \o now.time], saved)

\* receipt_trainer.py 87-109
add_pattern(t, pattern_type, pattern_value, saved) ==
  AddAndSave(t, "patterns",
             [type |-> pattern_type, value |-> pattern_value,
              added_at |-> now.date \o <<"T">> \o now.time], saved)

\* receipt_trainer.py 111-133
add_region(t, region_name, region_location, saved) ==
  AddAndSave(t, "regions",
             [name |-> region_name, location |-> region_location,
              added_at |-> now.date \o <<"T">> \o now.time], saved)

NextTrainer ==
  \/ NewTrainer
  \/ \E t \in 1..MaxTrainers, n \in {N_1234567, N_7654321}, image_exists, saved \in BOOLEAN :
       add_example(t, n, image_exists, saved)
  \/ \E t \in 1..MaxTrainers, v \in {<<"#">>, <<"N", "o">>}, saved \in BOOLEAN :
       add_pattern(t, S_prefix, v, saved)
  \/ \E t \in 1..MaxTrainers, saved \in BOOLEAN :
       add_region(t, S_top, [top |-> 0, left |-> 0, width |-> 100, height |-> 25], saved)

SpecTrainer == Quiet /\ [][NextTrainer]_vars

\* C18 Through any number of instances sharing the corpus file and any
\* interleaving of add_example, add_pattern and add_region, every entry that
\* was ever written to the file is still in the list of the file it was
\* written to.
C18_CorpusOnlyGrows ==
  \A w \in written :
    \E i \in 1..Len(corpus.data[w.list]) : corpus.data[w.list][i] = w.entry

(***************************************************************************)
(* app: the report_items table, the browser session, update_data           *)
(***************************************************************************)
\* a JSON null, and a JSON item that is a string and no object
None == <<"None">>
NotADict == [json |-> "string"]
IsDict(item) == "json" \notin DOMAIN item

\* app.py 288-299 and 582-593: the ReportItem of an item (`extra` is the key
\* of additional_info: 'additional_info' in upload_file, 'time' in update_data)
ReportItem(session_id, item, extra) ==
  [session_id |-> session_id,
   item_number |-> Get(item, "item_number", <<>>),
   price |-> Get(item, "price", <<>>),
   period |-> Get(item, "period", S_P00),
   exception |-> Get(item, "exception", <<>>),
   quantity |-> Get(item, "quantity", Integer(1)),
   additional_info |-> Get(item, extra, <<>>),
   original_description |-> Get(item, "description", <<>>),
   original_date |-> Get(item, "date", <<>>),
   original_time |-> Get(item, "time", <<>>)]

\* the rows of a session, in insertion order
SessionRows(table, session_id) ==
  LET Mine(row) == row.session_id = session_id IN SelectSeq(table, Mine)

\* ReportItem.query.filter_by(session_id=...).delete()
DeleteSession(table, session_id) ==
  LET Others(row) == row.session_id # session_id IN SelectSeq(table, Others)

\* the loop of db.session.add: the pending rows, and whether item.get raised
\* on an item that is no object
RECURSIVE AddItems(_, _, _, _)
AddItems(pending, session_id, items, extra) ==
  IF items = <<>> THEN [raised |-> FALSE, pending |-> pending]
  ELSE IF ~IsDict(Head(items)) THEN [raised |-> TRUE, pending |-> pending]
  ELSE AddItems(Append(pending, ReportItem(session_id, Head(items), extra)),
                session_id, Tail(items), extra)

\* db.session.commit(): raises when the database is unreachable or a pending
\* row breaks nullable=False of item_number (models.py 11)
CommitRaises(pending, db_up) ==
  ~db_up \/ \E i \in 1..Len(pending) : pending[i].item_number = None

\* C19 mutant: the delete is not undone when a later step raises
update_data_no_rollback(table, session, updated_data, db_up) ==
  LET Stored == [session EXCEPT !.extracted_data = updated_data, !.flashed = <<>>]
      Done(added) ==
        IF added.raised \/ CommitRaises(added.pending, db_up)
        THEN [db |-> DeleteSession(table, session.session_id),
              web |-> [Stored EXCEPT !.response = "update_failed"]]
        ELSE [db |-> added.pending, web |-> [Stored EXCEPT !.response = "update_ok"]]
  IN IF session.session_id = 0
     THEN [db |-> table, web |-> [Stored EXCEPT !.response = "update_failed"]]
     ELSE Done(AddItems(DeleteSession(table, session.session_id),
                        session.session_id, updated_data, "time"))

\* app.py 566-602: the table and the session after the request. The delete
\* and the adds are pending until commit (597); any exception rolls them
\* back (600).
update_data(table, session, updated_data, db_up) ==
  LET Stored == [session EXCEPT !.extracted_data = updated_data, !.flashed = <<>>]
      Done(added) ==
        IF added.raised \/ CommitRaises(added.pending, db_up)
        THEN [db |-> table, web |-> [Stored EXCEPT !.response = "update_failed"]]
        ELSE [db |-> added.pending, web |-> [Stored EXCEPT !.response = "update_ok"]]
  IN IF session.session_id = 0
     THEN [db |-> table, web |-> [Stored EXCEPT !.response = "update_failed"]]
     ELSE Done(AddItems(DeleteSession(table, session.session_id),
                        session.session_id, updated_data, "time"))

(***************************************************************************)
(* app: upload_file                                                        *)
(***************************************************************************)
WordChars == Letters \cup Digits \cup {"_"}

\* \b at position pos of s: exactly one of the characters before and at pos
\* is a word character
WordBoundary(s, pos) ==
  (pos > 1 /\ s[pos - 1] \in WordChars) # (pos <= Len(s) /\ s[pos] \in WordChars)

\* the longest count in lo..top of digits from pos that ends at a word
\* boundary, 0 when there is none
RECURSIVE BoundedCount(_, _, _, _)
BoundedCount(s, pos, lo, top) ==
  IF top < lo THEN 0
  ELSE IF WordBoundary(s, pos + top) THEN top
  ELSE BoundedCount(s, pos, lo, top - 1)

\* re.findall(r'\b\d{lo,hi}\b', s) from position pos on
RECURSIVE FindDigitWords(_, _, _, _)
FindDigitWords(s, lo, hi, pos) ==
  LET Here(c) ==
        IF c = 0 THEN FindDigitWords(s, lo, hi, pos + 1)
        ELSE <<SubSeq(s, pos, pos + c - 1)>> \o FindDigitWords(s, lo, hi, pos + c)
  IN IF pos > Len(s) THEN <<>>
     ELSE IF ~WordBoundary(s, pos) THEN FindDigitWords(s, lo, hi, pos + 1)
     ELSE Here(BoundedCount(s, pos, lo, RunLen(Rep(Digits, lo, hi), s, pos, 0)))

\* app.py 167-176
primary_matches(ocr_text) == FindDigitWords(ocr_text, 7, 8, 1)
secondary_matches(ocr_text) == FindDigitWords(ocr_text, 6, 6, 1)

max_to_process == 50

S_register == <<"r", "e", "g", "i", "s", "t", "e", "r">>
S_transaction == <<"t", "r", "a", "n", "s", "a", "c", "t", "i", "o", "n">>
S_receipt == <<"r", "e", "c", "e", "i", "p", "t">>
S_order == <<"o", "r", "d", "e", "r">>

\* app.py 202-212: str.find gives -1 for no occurrence, Find gives 0
skip_match(ocr_text, match) ==
  \E prefix \in {S_register, S_transaction, S_receipt, S_order} :
    LET Near(prefix_pos, match_pos) ==
          /\ prefix_pos >= 0 /\ match_pos >= 0
          /\ 0 < match_pos - prefix_pos /\ match_pos - prefix_pos < 30
    IN Near(Find(Lower(ocr_text), prefix) - 1, Find(ocr_text, match) - 1)

\* app.py 187-223: the loop over the matches
RECURSIVE FilterMatches(_, _, _, _)
FilterMatches(ocr_text, matches, processed_count, filtered_matches) ==
  IF matches = <<>> \/ processed_count + 1 > max_to_process THEN filtered_matches
  ELSE LET Skip(match) ==
             \/ Len(match) = 8 /\ (StartsWith(match, <<"1", "9">>) \/ StartsWith(match, <<"2", "0">>))
             \/ StartsWith(match, <<"0">>)
             \/ skip_match(ocr_text, match)
       IN IF Skip(Head(matches))
          THEN FilterMatches(ocr_text, Tail(matches), processed_count + 1, filtered_matches)
          ELSE IF Len(filtered_matches) + 1 >= required_count
          THEN Append(filtered_matches, Head(matches))
          ELSE FilterMatches(ocr_text, Tail(matches), processed_count + 1,
                             Append(filtered_matches, Head(matches)))

\* list(dict.fromkeys(xs)): the first occurrence of each element, in order
RECURSIVE Unique(_, _)
Unique(xs, seen) ==
  IF xs = <<>> THEN seen
  ELSE IF \E i \in 1..Len(seen) : seen[i] = Head(xs) THEN Unique(Tail(xs), seen)
  ELSE Unique(Tail(xs), Append(seen, Head(xs)))

\* app.py 167-236
item_numbers(ocr_text) ==
  LET Capped(xs) == SubSeq(xs, 1, Min(Len(xs), required_count))
  IN Capped(Unique(FilterMatches(ocr_text,
                                 primary_matches(ocr_text) \o secondary_matches(ocr_text),
                                 0, <<>>), <<>>))

\* app.py 245-256
products ==
  <<[name |-> <<"M", "I", "C", "R", "O", "S", "O", "F", "T", " ", "X", "B", "O", "X">>,
     price |-> <<"4", "9", "9", ".", "9", "9">>],
    [name |-> <<"H", "D", "M", "I", " ", "C", "A", "B", "L", "E">>,
     price |-> <<"2", "9", ".", "9", "9">>],
    [name |-> <<"C", "O", "N", "T", "R", "O", "L", "L", "E", "R">>,
     price |-> <<"5", "9", ".", "9", "8">>],
    [name |-> <<"S", "C", "R", "E", "E", "N", " ", "P", "R", "O", "T", "E", "C", "T", "O", "R">>,
     price |-> <<"1", "4", ".", "9", "9">>],
    [name |-> <<"P", "H", "O", "N", "E", " ", "C", "H", "A", "R", "G", "E", "R">>,
     price |-> <<"1", "9", ".", "9", "8">>],
    [name |-> <<"H", "E", "A", "D", "P", "H", "O", "N", "E", "S">>,
     price |-> <<"4", "9", ".", "9", "7">>],
    [name |-> <<"S", "M", "A", "R", "T", " ", "W", "A", "T", "C", "H">>,
     price |-> <<"3", "4", "9", ".", "9", "9">>],
    [name |-> <<"S", "C", "R", "E", "E", "N", " ", "C", "L", "E", "A", "N", "E", "R">>,
     price |-> <<"2", "4", ".", "9", "9">>],
    [name |-> <<"P", "O", "W", "E", "R", " ", "B", "A", "N", "K">>,
     price |-> <<"2", "4", ".", "9", "8">>],
    [name |-> <<"U", "S", "B", " ", "C", "A", "B", "L", "E">>,
     price |-> <<"9", ".", "9", "9">>]>>

\* app.py 259-278: the record of the i-th number (i from 0)
UploadItem(i, item_number, today) ==
  [item_number |-> item_number,
   price |-> products[(i % Len(products)) + 1].price,
   period |-> <<"P", "0", "4">>,
   date |-> today,
   time |-> TwoDigits(9 + (i % 8)) \o <<":">> \o TwoDigits((i * 7) % 60)
            \o <<":">> \o TwoDigits((i * 13) % 60),
   description |-> products[(i % Len(products)) + 1].name,
   quantity |-> Integer(1),
   exception |-> <<>>]

\* ALLOWED_EXTENSIONS, lower-cased name after the last dot (app.py 26-29)
ALLOWED_EXTENSIONS ==
  {<<"p", "n", "g">>, <<"j", "p", "g">>, <<"j", "p", "e", "g">>, <<"g", "i", "f">>,
   <<"b", "m", "p">>, <<"t", "i", "f", "f">>}

RECURSIVE LastDot(_, _)
LastDot(name, i) ==
  IF i = 0 THEN 0 ELSE IF name[i] = "." THEN i ELSE LastDot(name, i - 1)

allowed_file(name) ==
  /\ LastDot(name, Len(name)) > 0
  /\ Lower(SubSeq(name, LastDot(name, Len(name)) + 1, Len(name)))
       \in ALLOWED_EXTENSIONS

Flash(category, message) == [category |-> category, message |-> message]

\* app.py 37-326: the table and the session after the request.
\*   req     what the request carries and what saving it does
\*           (file part, filename, outcome of file.save and of the checks)
\*   ocr     what the OCR stage (86-150) leaves: a text, the failure of the
\*           emergency fallback, or an exception
\*   db_up   whether the commit at 302 succeeds
\* extract_data_from_text is called at 158 and its list is replaced at 239.
upload_file(table, session, req, ocr, today, db_up) ==
  LET Answer(response, flashes) ==
        [db |-> table, web |-> [session EXCEPT !.response = response, !.flashed = flashes]]
      Persist(numbers, session_id) ==
        LET Batch == [i \in 1..Len(numbers) |-> UploadItem(i - 1, numbers[i], today)]
            Warned == IF numbers = <<>> THEN <<Flash("warning", "No item numbers detected")>>
                      ELSE <<>>
            Added(added) ==
              IF CommitRaises(added.pending, db_up)
              THEN [db |-> table,
                    web |-> [session EXCEPT !.session_id = session_id, !.issued = session_id,
                                            !.response = "redirect_index",
                                            !.flashed = Warned \o <<Flash("danger", "Error processing image")>>]]
              ELSE [db |-> added.pending,
                    web |-> [session EXCEPT !.session_id = session_id, !.issued = session_id,
                                            !.extracted_data = Batch,
                                            !.response = "redirect_results",
                                            !.flashed = Warned \o <<Flash("success", "Receipt processed successfully")>>]]
        IN Added(AddItems(table, session_id, Batch, "additional_info"))
  IN IF ~req.part THEN Answer("redirect_upload", <<Flash("danger", "No file part")>>)
     ELSE IF req.filename = <<>>
     THEN Answer("redirect_upload", <<Flash("danger", "No selected file")>>)
     ELSE IF ~allowed_file(req.filename)
     THEN Answer("redirect_index", <<Flash("warning", "File type not allowed")>>)
     ELSE IF req.save # "ok"
     THEN Answer("redirect_index", <<Flash("danger", "Error saving uploaded file")>>)
     ELSE IF ocr.kind = "fallback_failed"
     THEN Answer("redirect_index", <<Flash("danger", "Error processing receipt image")>>)
     ELSE IF ocr.kind = "raised"
     THEN Answer("redirect_index", <<Flash("danger", "Error processing image")>>)
     ELSE IF Contains(ocr.text, S_Error)
     THEN Answer("redirect_index", <<Flash("danger", "OCR processing error")>>)
     ELSE Persist(item_numbers(ocr.text), session.issued + 1)

U_None == <<"T", "O", "T", "A", "L", " ", "D", "U", "E", " ", "5", ".", "0", "0">>
U_Two == <<"1", "2", "3", "4", "5", "6", "7", " ", "W", "I", "D", "G", "E", "T", "\n", "7", "6", "5", "4", "3", "2", "1", " ", "G", "A", "D", "G", "E", "T">>
U_Filtered == <<"r", "e", "c", "e", "i", "p", "t", " ", "1", "2", "3", "4", "5", "6", "7", " ", "2", "0", "2", "3", "0", "4", "1", "5", " ", "0", "1", "2", "3", "4", "5", "6">>
U_Dup == <<"1", "2", "3", "4", "5", "6", "7", " ", "1", "2", "3", "4", "5", "6", " ", "1", "2", "3", "4", "5", "6", "7", " ", "A", "7", "6", "5", "4", "3", "2", "1">>
U_ErrorText == <<"E", "r", "r", "o", "r", ":", " ", "C", "o", "u", "l", "d", " ", "n", "o", "t", " ", "r", "e", "a", "d", " ", "i", "m", "a", "g", "e">>
F_Upper == <<"R", ".", "J", "P", "G">>
F_Text == <<"r", ".", "t", "x", "t">>
N_123456 == <<"1", "2", "3", "4", "5", "6">>
T_101112 == <<"1", "0", ":", "1", "1", ":", "1", "2">>

\* what process_image, process_quick or the emergency OCR (app.py 97-146)
\* can leave in extracted_text
UploadTexts == {U_None, U_Two, U_Filtered, U_Dup, U_ErrorText}

OcrOutcomes ==
  {[kind |-> "text", text |-> t] : t \in UploadTexts}
  \cup {[kind |-> "fallback_failed", text |-> <<>>], [kind |-> "raised", text |-> <<>>]}

UploadRequests ==
  {[part |-> FALSE, filename |-> <<>>, save |-> "ok"],
   [part |-> TRUE, filename |-> <<>>, save |-> "ok"],
   [part |-> TRUE, filename |-> F_Text, save |-> "ok"],
   [part |-> TRUE, filename |-> F_Upper, save |-> "fails"],
   [part |-> TRUE, filename |-> F_Upper, save |-> "ok"]}

\* the items a browser posts to /update-data
EditedItem ==
  [item_number |-> N_AB1234, price |-> P_1999, quantity |-> Text(<<"3", "-">>),
   time |-> T_101112]
AddedItem == [item_number |-> N_123456]
NullItem == [item_number |-> None]

UpdateBatches ==
  {<<>>, <<EditedItem>>, <<EditedItem, AddedItem>>, <<NotADict>>,
   <<EditedItem, NotADict>>, <<EditedItem, NullItem>>}

MaxUploads == 2

\* the inputs of upload_file that differ in effect: the OCR stage and the
\* commit matter only to a request whose file was accepted and saved
UploadInputs ==
  {<<req, [kind |-> "raised", text |-> <<>>], TRUE>> :
     req \in {r \in UploadRequests : r.save # "ok" \/ ~r.part \/ ~allowed_file(r.filename)}}
  \cup {<<req, ocr, db_up>> :
          req \in {r \in UploadRequests : r.save = "ok" /\ r.part /\ allowed_file(r.filename)},
          ocr \in OcrOutcomes, db_up \in BOOLEAN}

\* the inputs of update_data that differ in effect: a failing commit matters
\* only to a batch that would be committed
UpdateInputs ==
  {<<updated_data, TRUE>> : updated_data \in UpdateBatches}
  \cup {<<updated_data, FALSE>> :
          updated_data \in {b \in UpdateBatches :
                              \A i \in 1..Len(b) : IsDict(b[i]) /\ b[i].item_number # None}}

UploadFile(req, ocr, db_up) ==
  /\ web.issued < MaxUploads
  /\ LET Apply(after) == db' = after.db /\ web' = after.web
     IN Apply(upload_file(db, web, req, ocr, now.date, db_up))
  /\ UNCHANGED <<CascadeVars, ExtractorVars, ExportVars, AS400Vars, TrainerVars>>

UpdateData(updated_data, db_up) ==
  /\ LET Apply(after) == db' = after.db /\ web' = after.web
     IN Apply(update_data(db, web, updated_data, db_up))
  /\ UNCHANGED <<CascadeVars, ExtractorVars, ExportVars, AS400Vars, TrainerVars>>

NextApp ==
  \/ \E in \in UploadInputs : UploadFile(in[1], in[2], in[3])
  \/ \E in \in UpdateInputs : UpdateData(in[1], in[2])

SpecApp == Quiet /\ [][NextApp]_vars

SessionIds == 1..(MaxUploads + 1)

\* C19 A step in which update_data succeeds leaves, for the session's
\* session_id, exactly one row per submitted item, in order and with the
\* item's number, price, period and quantity, and leaves the rows of every
\* other session as they were; a step in which update_data fails leaves the
\* whole table as it was.
C19_AtomicReplacement ==
  [][/\ web'.response = "update_ok" =>
          /\ Len(SessionRows(db', web'.session_id)) = Len(web'.extracted_data)
          /\ \A i \in 1..Len(web'.extracted_data) :
               /\ SessionRows(db', web'.session_id)[i].item_number
                    = Get(web'.extracted_data[i], "item_number", <<>>)
               /\ SessionRows(db', web'.session_id)[i].price
                    = Get(web'.extracted_data[i], "price", <<>>)
               /\ SessionRows(db', web'.session_id)[i].period
                    = Get(web'.extracted_data[i], "period", S_P00)
               /\ SessionRows(db', web'.session_id)[i].quantity
                    = Get(web'.extracted_data[i], "quantity", Integer(1))
          /\ \A s \in SessionIds \ {web'.session_id} :
               SessionRows(db', s) = SessionRows(db, s)
     /\ web'.response = "update_failed" => db' = db]_vars

\* C19 witness: update_data has failed on the second item of a batch, after
\* the delete and one add, and the two rows of the upload are still the rows
\* of the session
C19_FailedPartwayKeepsBatch ==
  /\ web.response = "update_failed"
  /\ web.session_id # 0
  /\ Len(web.extracted_data) = 2
  /\ IsDict(web.extracted_data[1])
  /\ ~IsDict(web.extracted_data[2])
  /\ Len(SessionRows(db, web.session_id)) = 2
  /\ SessionRows(db, web.session_id)[1].item_number = N_1234567
  /\ SessionRows(db, web.session_id)[2].item_number = N_7654321

\* C20 Whenever upload_file has persisted the batch and redirected to the
\* results view, the batch and the rows of its session hold at least one
\* record; when no item number was detected the batch is the single
\* placeholder record.
C20_NeverEmptyResult ==
  web.response = "redirect_results" =>
    /\ web.extracted_data # <<>>
    /\ SessionRows(db, web.session_id) # <<>>
    /\ (\E i \in 1..Len(web.flashed) : web.flashed[i].category = "warning") =>
         /\ Len(web.extracted_data) = 1
         /\ web.extracted_data[1].item_number = S_DefaultItem

(***************************************************************************)
(* data_exporter: quantities that are integers already                     *)
(***************************************************************************)
\* C30 Whenever either exporter writes the row of an item whose quantity is
\* an integer already (a negative one such as -3 included), the quantity of
\* the row is that same integer.
C30_IntegerQuantityKept ==
  \A i \in 1..Len(export_data) :
    (rows.credentials /\ "quantity" \in DOMAIN export_data[i]
       /\ export_data[i].quantity.type = "int") =>
      /\ ~rows.out.raised
      /\ rows.out.rows[i].qty = export_data[i].quantity.number

(***************************************************************************)
(* app: the session's batch against the table after update_data            *)
(***************************************************************************)
\* C29 After every update_data call, whatever its outcome, the batch held in
\* session['extracted_data'] has one item per persisted row of the session,
\* in order and with the row's item number.
C29_SessionAgreesWithStore ==
  web.response \in {"update_ok", "update_failed"} =>
    /\ Len(web.extracted_data) = Len(SessionRows(db, web.session_id))
    /\ \A i \in 1..Len(web.extracted_data) :
         /\ IsDict(web.extracted_data[i])
         /\ Get(web.extracted_data[i], "item_number", <<>>)
              = SessionRows(db, web.session_id)[i].item_number

(***************************************************************************)
(* receipt_trainer: what a call that returns False leaves behind           *)
(***************************************************************************)
\* receipt_trainer.py 135-143: the counts of the summary
get_training_summary(training_data) ==
  [example_count |-> Len(training_data.examples),
   pattern_count |-> Len(training_data.patterns),
   region_count |-> Len(training_data.regions)]

\* C28 A step in which add_example, add_pattern or add_region returns False
\* leaves the training data of the instance, and so the counts of its
\* summary, as they were before the call.
C28_FailedAddChangesNothing ==
  [][(returned'.call \in {"examples", "patterns", "regions"} /\ ~returned'.value) =>
       /\ trainers'[returned'.trainer] = trainers[returned'.trainer]
       /\ get_training_summary(trainers'[returned'.trainer])
            = get_training_summary(trainers[returned'.trainer])]_vars

(***************************************************************************)
(* receipt_trainer: analyze_receipt_for_training and train_from_examples   *)
(***************************************************************************)
\* one instance at work: its training_data, the corpus file and the entries
\* ever saved. An add appends to the instance and rewrites the file from it
\* (receipt_trainer.py 77-81, 103-106, 127-130, 43-52).
SaveAdd(st, list, added, saved) ==
  [data |-> Appended(st.data, list, added),
   file |-> IF saved THEN [exists |-> TRUE, data |-> Appended(st.data, list, added)]
            ELSE st.file,
   written |-> IF saved THEN st.written \cup {[list |-> list, entry |-> added]}
               ELSE st.written]

Stamp == now.date \o <<"T">> \o now.time

S_auto == <<"a", "u", "t", "o", "_">>
S_suffix == <<"s", "u", "f", "f", "i", "x">>
S_AutoAnalyzed ==
  <<"A", "u", "t", "o", "-", "a", "n", "a", "l", "y", "z", "e", "d", " ",
    "e", "x", "a", "m", "p", "l", "e">>

\* receipt_trainer.py 171-176: name and coords (x, y, w, h) of each band
Bands(height, width) ==
  <<[name |-> <<"t", "o", "p">>, coords |-> <<0, 0, width, height \div 4>>],
    [name |-> <<"u", "p", "p", "e", "r", "_", "m", "i", "d", "d", "l", "e">>,
     coords |-> <<0, height \div 4, width, height \div 2>>],
    [name |-> <<"l", "o", "w", "e", "r", "_", "m", "i", "d", "d", "l", "e">>,
     coords |-> <<0, height \div 2, width, (3 * height) \div 4>>],
    [name |-> <<"b", "o", "t", "t", "o", "m">>,
     coords |-> <<0, (3 * height) \div 4, width, height>>]>>

\* a fraction a / b as the float division leaves it, kept exact
Fraction(a, b) == [num |-> a, den |-> b]

\* receipt_trainer.py 181-203: the result for one band. The rows of the
\* crop img[y:y+h, x:x+w] are y .. y+h-1, cut at the image's last row; the
\* number is read in the crop when its row is among them.
RegionResult(image, band) ==
  LET Of(x, y, w, h) ==
        [region |-> band.name,
         contains_item_number |->
           image.number_row >= y /\ image.number_row < Min(y + h, image.height),
         relative_coords |->
           [top |-> Fraction(y, image.height), left |-> Fraction(x, image.width),
            width |-> Fraction(w, image.width), height |-> Fraction(h, image.height)]]
  IN Of(band.coords[1], band.coords[2], band.coords[3], band.coords[4])

\* receipt_trainer.py 180-211: the loop over the bands, adding a region for
\* each band in which the number was read
RECURSIVE ScanBands(_, _, _, _, _)
ScanBands(st, image, bands, results, saved) ==
  IF bands = <<>> THEN [st |-> st, regions |-> results]
  ELSE LET Band(r) ==
             ScanBands(IF r.contains_item_number
                       THEN SaveAdd(st, "regions",
                                    [name |-> S_auto \o r.region \o <<"_">> \o Stamp,
                                     location |-> r.relative_coords,
                                     added_at |-> Stamp], saved)
                       ELSE st,
                       image, Tail(bands), Append(results, r), saved)
       IN Band(RegionResult(image, Head(bands)))

\* str.replace(" ", "")
NoBlanks(s) == LET Kept(c) == c # " " IN SelectSeq(s, Kept)

\* receipt_trainer.py 222-251: the loop over the lines of the whole text
RECURSIVE ScanLines(_, _, _, _)
ScanLines(st, lines, item_number, saved) ==
  IF lines = <<>> THEN st
  ELSE LET Pattern(type, value) == [type |-> type, value |-> value, added_at |-> Stamp]
           After(s, chars_after) ==
             IF chars_after # <<>>
             THEN SaveAdd(s, "patterns", Pattern(S_suffix, chars_after), saved)
             ELSE s
           Before(s, chars_before) ==
             IF chars_before # <<>>
             THEN SaveAdd(s, "patterns", Pattern(S_prefix, chars_before), saved)
             ELSE s
           \* idx counts from 0: clean_line[:idx][-3:] and
           \* clean_line[idx+len(item_number):][:3]
           Line(clean_line, idx) ==
             After(Before(st, SubSeq(clean_line, IF idx > 3 THEN idx - 2 ELSE 1, idx)),
                   SubSeq(clean_line, idx + Len(item_number) + 1,
                          Min(Len(clean_line), idx + Len(item_number) + 3)))
       IN IF Contains(NoBlanks(Head(lines)), item_number)
          THEN ScanLines(Line(NoBlanks(Head(lines)),
                              Find(NoBlanks(Head(lines)), item_number) - 1),
                         Tail(lines), item_number, saved)
          ELSE ScanLines(st, Tail(lines), item_number, saved)

\* receipt_trainer.py 54-85 on one instance: [st, value]
AddExample(st, item_number, image, description, saved) ==
  IF ~image.exists THEN [st |-> st, value |-> FALSE]
  ELSE [st |-> SaveAdd(st, "examples",
                       [item_number |-> item_number, image_path |-> image.path,
                        description |-> description, added_at |-> Stamp], saved),
        value |-> saved]

\* receipt_trainer.py 145-264: [st, success, regions]
analyze_receipt_for_training(st, image, item_number, saved) ==
  IF ~image.exists \/ ~image.readable
  THEN [st |-> st, success |-> FALSE, regions |-> <<>>]
  ELSE LET Done(scan) ==
             [st |-> AddExample(ScanLines(scan.st, SplitLines(image.all_text),
                                          item_number, saved),
                                item_number, image, S_AutoAnalyzed, saved).st,
              success |-> TRUE, regions |-> scan.regions]
       IN Done(ScanBands(st, image, Bands(image.height, image.width), <<>>, saved))

\* receipt_trainer.py 281-310: the loop over the examples; a result is kept
\* for each example
RECURSIVE TrainLoop(_, _, _, _)
TrainLoop(st, examples, results, saved) ==
  IF examples = <<>> THEN [st |-> st, results |-> results]
  ELSE LET Result(success, analysed) ==
             [item_number |-> Head(examples).item_number, success |-> success,
              analysis |-> analysed]
           Analyzed(after) ==
             TrainLoop(after.st, Tail(examples), Append(results, Result(TRUE, after.success)),
                       saved)
           Added(after) ==
             IF after.value
             THEN Analyzed(analyze_receipt_for_training(after.st, Head(examples).image,
                                                        Head(examples).item_number, saved))
             ELSE TrainLoop(after.st, Tail(examples), Append(results, Result(FALSE, FALSE)), saved)
       IN IF Head(examples).item_number = <<>>
          THEN TrainLoop(st, Tail(examples), Append(results, Result(FALSE, FALSE)), saved)
          ELSE Added(AddExample(st, Head(examples).item_number, Head(examples).image,
                                S_ExampleFor \o Head(examples).item_number, saved))

\* receipt_trainer.py 267-318: a new instance loads the corpus and the loop
\* runs on it
train_from_examples(examples, saved) ==
  TrainLoop([data |-> load_training_data, file |-> corpus, written |-> written],
            examples, <<>>, saved)

\* the images of the examples: none at the path, a file that is no image,
\* and images of at least four rows (so that every crop has rows) with the
\* row in which the number is printed (-1: nowhere) and the text read from
\* the whole image
Image(path, height, width, number_row, all_text) ==
  [path |-> path, exists |-> TRUE, readable |-> TRUE, height |-> height, width |-> width,
   number_row |-> number_row, all_text |-> all_text]

S_GonePath == <<"g", ".", "j", "p", "g">>
S_TextPath == <<"t", ".", "t", "x", "t">>
T_Context == <<"N", "o", " ", "1", "2", "3", "4", "5", "6", "7", " ", "x", NL, "t", "o", "t", "a", "l">>

Images ==
  {[Image(S_GonePath, 4, 4, -1, <<>>) EXCEPT !.exists = FALSE, !.readable = FALSE],
   [Image(S_TextPath, 4, 4, -1, <<>>) EXCEPT !.readable = FALSE],
   Image(S_ImagePath, 4, 4, 0, N_1234567),
   Image(S_ImagePath, 8, 6, 5, T_Context),
   Image(S_ImagePath, 10, 3, -1, <<>>)}

TrainingExample(item_number, image) == [item_number |-> item_number, image |-> image]

\* the lists of examples handed to train_from_examples
ExampleLists ==
  {<<>>}
  \cup {<<TrainingExample(n, i)>> : n \in {N_1234567, <<>>}, i \in Images}
  \cup {<<TrainingExample(N_1234567, i), TrainingExample(N_1234567, j)>> :
          i, j \in {i \in Images : i.path # S_TextPath}}

\* one call of analyze_receipt_for_training on an instance
AnalyzeReceipt ==
  \E t \in 1..Len(trainers), image \in Images, saved \in BOOLEAN :
    LET Apply(after) ==
          /\ trainers' = [trainers EXCEPT ![t] = after.st.data]
          /\ corpus' = after.st.file
          /\ written' = after.st.written
          /\ returned' = [NoCall EXCEPT !.call = "analyze", !.trainer = t,
                                        !.value = after.success, !.regions = after.regions]
    IN /\ EntryCount(trainers[t]) < MaxEntries
       /\ Apply(analyze_receipt_for_training(
                  [data |-> trainers[t], file |-> corpus, written |-> written],
                  image, N_1234567, saved))
       /\ UNCHANGED <<CascadeVars, ExtractorVars, ExportVars, AS400Vars, WebVars>>

\* one call of train_from_examples
TrainFromExamples ==
  \E examples \in ExampleLists, saved \in BOOLEAN :
    LET Apply(after) ==
          /\ trainers' = Append(trainers, after.st.data)
          /\ corpus' = after.st.file
          /\ written' = after.st.written
          /\ returned' = [NoCall EXCEPT !.call = "train", !.trainer = Len(trainers) + 1,
                                        !.value = TRUE, !.results = after.results]
    IN /\ Len(trainers) < MaxTrainers
       /\ Apply(train_from_examples(examples, saved))
       /\ UNCHANGED <<CascadeVars, ExtractorVars, ExportVars, AS400Vars, WebVars>>

NextTraining ==
  \/ NewTrainer
  \/ AnalyzeReceipt
  \/ TrainFromExamples

SpecTraining == Quiet /\ [][NextTraining]_vars

\* C27 train_from_examples adds each example once: when the call has added
\* n of its examples, the corpus file holds exactly n more examples than
\* before the call.
C27_EachExampleOnce ==
  [][returned'.call = "train" =>
       Len(corpus'.data.examples)
         = (IF corpus.exists THEN Len(corpus.data.examples) ELSE 0)
           + Cardinality({i \in 1..Len(returned'.results) : returned'.results[i].success})]_vars

\* C22 The four bands of analyze_receipt_for_training are the quarters of
\* the image: each is a quarter of the height, no two overlap, and each lies
\* inside the image, for every height and width.
C22_BandsAreQuarters ==
  (returned.call = "analyze" /\ returned.value) =>
    /\ Len(returned.regions) = 4
    /\ \A i \in 1..Len(returned.regions) :
         LET InImage(c) ==
               /\ 4 * c.height.num = c.height.den
               /\ 0 <= c.top.num /\ c.top.num + c.height.num <= c.top.den
               /\ 0 <= c.left.num /\ c.left.num + c.width.num <= c.left.den
         IN InImage(returned.regions[i].relative_coords)
    /\ \A i, j \in 1..Len(returned.regions) :
         LET Below(a, b) == a.top.num + a.height.num <= b.top.num
         IN i < j => Below(returned.regions[i].relative_coords,
                           returned.regions[j].relative_coords)

(***************************************************************************)
(* the accounting periods                                                  *)
(***************************************************************************)
\* P00 .. P12
Periods ==
  {<<"P", "0", DigitChar[m + 1]>> : m \in 0..9}
  \cup {<<"P", "1", "0">>, <<"P", "1", "1">>, <<"P", "1", "2">>}

\* C24 Every period parse_as400_audit puts on an entry is one of P00 .. P12,
\* whatever stands in the date columns of the line.
C24_PeriodInRange ==
  \A k \in 1..Len(parsed) : parsed[k]["Period"] \in Periods

\* C26 On every return of process_image (normal end, timeout, inner
\* exception with the fallback, unreadable image) no alarm is pending: the
\* alarm the function armed has been cancelled.
C26_AlarmCancelledOnReturn ==
  pc = "ocr_ret" => alarm = 0

\* C25 direct_process returns exactly one record for every file that exists
\* and can be read: a request of process_receipt_image_safe whose upload was
\* saved non-empty and readable, whose AI strategy yielded nothing and in
\* which no timeout fired ends with success and exactly that one record,
\* never with "No item numbers could be extracted from the image".
C25_DirectAlwaysOneRecord ==
  (/\ pc = "done" /\ entry = "safe" /\ upload = "ok" /\ readable
   /\ outcome["ai"] \in {"zero", "raised"} /\ timeouts = {}) =>
    /\ Len(direct_process(filename, now)) = 1
    /\ result.success
    /\ Len(result.data) = 1
    /\ result.data[1].item_number = direct_process(filename, now)[1].item_number
    /\ result # Failure(NoItemNumbers)

C25_FallbackRecordReturned ==
  /\ pc = "done" /\ entry = "safe" /\ upload = "ok" /\ readable
  /\ outcome["ai"] = "zero" /\ timeouts = {} /\ outcome["direct"] = "items"
  /\ filename = F_Other
  /\ result.success /\ Len(result.data) = 1
  /\ result.data[1].item_number = N_7654321

\* C21 process_quick is invoked only in requests in which process_image
\* timed out: a request in which process_image ended without a timeout never
\* calls process_quick.
C21_QuickOnlyAfterTimeout ==
  (entry = "new" /\ WasCalled("quick")) => "ocr" \in timeouts

(***************************************************************************)
(* extract_data_from_text: the three passes                                *)
(***************************************************************************)
\* what each pass finds in the text t when it starts from nothing
Fresh == [items |-> <<>>, processed_items |-> {}]

\* the Member#/Operator ID pass, ocr_processor.py 318-390
TierA(t) ==
  LET Lines(lines) == FirstPass(lines, 1, ReportDate(lines), Fresh).items
  IN Lines(SplitLines(Strip(t)))

\* the per-line pass, ocr_processor.py 411-461
TierB(t) ==
  LET Lines(lines) == SecondPass(lines, 1, ReportDate(lines), Fresh).items
  IN Lines(SplitLines(Strip(t)))

\* the pass over the whole text, ocr_processor.py 463-502
TierC(t) ==
  LET Third(report_date, all_items, all_prices, all_times) ==
        ThirdPass(all_items, all_prices, all_times, 1,
                  Min(Min(Len(all_items), Len(all_prices)), MaxBruteForce),
                  report_date, Fresh).items
  IN Third(ReportDate(SplitLines(Strip(t))), ReFindAll(item_pattern, t, 1, 1),
           ReFindAll(price_pattern, t, 1, 3), ReFindAll(time_pattern, t, 1, 5))

\* C23 The passes are tried in order and the returned list never mixes them:
\* it is the list of pass A when A found anything; pass B contributes only
\* when A found nothing, and then the list is B's; pass C contributes only
\* when A and B both found nothing, and then the list is C's.
C23_TiersNeverMix ==
  LET All(found) == \A i \in 1..Len(runs) : runs[i].items = WithPeriods(found)
      FromC(c) == c # <<>> => All(c)
      FromB(b) == IF b # <<>> THEN All(b) ELSE FromC(TierC(text))
      FromA(a) == IF a # <<>> THEN All(a) ELSE FromB(TierB(text))
  IN runs # <<>> => FromA(TierA(text))

C23_KeyedLineShadowsGeneric ==
  /\ runs # <<>>
  /\ text = JoinLines(<<L_Member, L_Till>>)
  /\ TierB(text) # <<>>
  /\ Len(runs[1].items) = 1
  /\ runs[1].items[1].item_number = N_1234567
====
